---- MODULE Spec2Model ----
(***************************************************************************)
(* Transcript chunking and meeting-minutes synthesis                       *)
(* (backend/meeting_minutes.py).                                           *)
(*                                                                         *)
(* A Python str is a sequence of one-character strings, so that len(),     *)
(* split(), join() and strip() are computed and not assumed.               *)
(***************************************************************************)
EXTENDS Integers, Sequences, FiniteSets, TLC

(***************************************************************************)
(* Bounds of the model                                                     *)
(***************************************************************************)
\* longest arbitrary paragraph prefix of a chunker input
MaxPrefix == 2
\* largest number of repetitions of the tail paragraph of a chunker input
MaxTail == 26
\* largest max_chunk_tokens handed to chunk_transcript on its own
MaxBudget == 3
\* largest overlap_tokens handed to chunk_transcript on its own
MaxOverlap == 1

(***************************************************************************)
(* Text helpers (Python str methods and re.split)                          *)
(***************************************************************************)
NL == "\n"

IsSpace(c) == c \in {" ", NL}

IsPunct(c) == c \in {".", "!", "?"}

MinOf(S) == CHOOSE x \in S : \A y \in S : x <= y

MaxOf(S) == CHOOSE x \in S : \A y \in S : x >= y

\* n copies of the character c
RECURSIVE Rep(_, _)
Rep(c, n) == IF n = 0 THEN <<>> ELSE <<c>> \o Rep(c, n - 1)

\* sep.join(parts)
RECURSIVE Join(_, _)
Join(parts, sep) ==
    IF Len(parts) = 0 THEN <<>>
    ELSE IF Len(parts) = 1 THEN parts[1]
    ELSE parts[1] \o sep \o Join(Tail(parts), sep)

\* the concatenation of a sequence of sequences
RECURSIVE FlattenSeqs(_)
FlattenSeqs(ss) == IF ss = <<>> THEN <<>> ELSE Head(ss) \o FlattenSeqs(Tail(ss))

\* s.split('\n'): always at least one element, empty pieces are kept
RECURSIVE SplitNL(_)
SplitNL(s) ==
    LET at == {i \in 1..Len(s) : s[i] = NL}
    IN  IF at = {} THEN <<s>>
        ELSE LET i == MinOf(at)
             IN  <<SubSeq(s, 1, i - 1)>> \o SplitNL(SubSeq(s, i + 1, Len(s)))

\* s.strip()
Strip(s) ==
    LET keep == {i \in 1..Len(s) : ~IsSpace(s[i])}
    IN  IF keep = {} THEN <<>> ELSE SubSeq(s, MinOf(keep), MaxOf(keep))

\* re.split(r'(?<=[.!?])\s+', s): cut at every maximal run of whitespace
\* that directly follows a '.', '!' or '?'; the run itself is dropped and a
\* trailing run leaves an empty last piece
RECURSIVE SplitSentences(_)
SplitSentences(s) ==
    LET at == {i \in 2..Len(s) : IsPunct(s[i - 1]) /\ IsSpace(s[i])}
    IN  IF at = {} THEN <<s>>
        ELSE LET i == MinOf(at)
                 j == MaxOf({k \in i..Len(s) : \A m \in i..k : IsSpace(s[m])})
             IN  <<SubSeq(s, 1, i - 1)>> \o SplitSentences(SubSeq(s, j + 1, Len(s)))

(***************************************************************************)
(* estimate_tokens: the len(text) // 4 estimate the code falls back to     *)
(***************************************************************************)
estimate_tokens(text) == IF text = <<>> THEN 0 ELSE Len(text) \div 4

(***************************************************************************)
(* chunk_transcript                                                        *)
(*                                                                         *)
(* A piece of current_chunk is [s |-> text, ov |-> flag]; ov is a ghost    *)
(* flag set on the overlap excerpt that seeds a chunk.  A chunk is         *)
(* [text |-> '\n'.join(pieces), parts |-> pieces]; only text exists in     *)
(* the code, parts records where the text came from.                       *)
(***************************************************************************)
max_chunks == 12

Piece(s, ov) == [s |-> s, ov |-> ov]

PieceTexts(parts) == [k \in 1..Len(parts) |-> parts[k].s]

\* chunks.append('\n'.join(current_chunk))
CloseChunk(current_chunk) ==
    [text |-> Join(PieceTexts(current_chunk), <<NL>>), parts |-> current_chunk]

\* lines 153-164: pack the sentences of an oversized paragraph
RECURSIVE SentenceLoop(_, _, _, _)
SentenceLoop(st, sentences, k, max_chunk_tokens) ==
    IF k > Len(sentences) THEN st
    ELSE
      LET sentence == sentences[k]
          s_tokens == estimate_tokens(sentence)
          nxt ==
            IF st.current_length + s_tokens <= max_chunk_tokens
            THEN [st EXCEPT !.current_chunk = Append(@, Piece(sentence, FALSE)),
                            !.current_length = @ + s_tokens,
                            !.overlap_text = sentence]
            ELSE [st EXCEPT !.chunks = IF st.current_chunk # <<>>
                                       THEN Append(@, CloseChunk(st.current_chunk))
                                       ELSE @,
                            !.current_chunk = <<Piece(sentence, FALSE)>>,
                            !.current_length = s_tokens,
                            !.overlap_text = sentence]
      IN  SentenceLoop(nxt, sentences, k + 1, max_chunk_tokens)

\* lines 172-177: trailing sentences of the paragraph while under the budget
RECURSIVE OverlapCandidate(_, _, _, _)
OverlapCandidate(sentences, k, candidate, overlap_tokens) ==
    IF k = 0 THEN candidate
    ELSE LET ext == sentences[k] \o <<" ">> \o candidate
         IN  IF estimate_tokens(ext) <= overlap_tokens
             THEN OverlapCandidate(sentences, k - 1, ext, overlap_tokens)
             ELSE candidate

\* lines 137-179: one iteration of the paragraph loop
ParagraphStep(st, paragraph, max_chunk_tokens, overlap_tokens) ==
    LET tokens == estimate_tokens(paragraph)
    IN
    IF Strip(paragraph) = <<>> THEN st
    ELSE IF st.current_length + tokens > max_chunk_tokens /\ st.current_chunk # <<>>
    THEN
      LET seeded == overlap_tokens > 0 /\ st.overlap_text # <<>>
          seed == IF seeded THEN <<Piece(st.overlap_text, TRUE)>> ELSE <<>>
          seed_length == IF seeded THEN estimate_tokens(st.overlap_text) ELSE 0
      IN  [chunks |-> Append(st.chunks, CloseChunk(st.current_chunk)),
           current_chunk |-> Append(seed, Piece(paragraph, FALSE)),
           current_length |-> seed_length + tokens,
           overlap_text |-> paragraph]
    ELSE IF tokens > max_chunk_tokens
    THEN SentenceLoop(st, SplitSentences(paragraph), 1, max_chunk_tokens)
    ELSE
      LET sentences == SplitSentences(paragraph)
          candidate == OverlapCandidate(sentences, Len(sentences), <<>>, overlap_tokens)
      IN  [st EXCEPT !.current_chunk = Append(@, Piece(paragraph, FALSE)),
                     !.current_length = @ + tokens,
                     !.overlap_text =
                        IF estimate_tokens(paragraph) <= overlap_tokens THEN paragraph
                        ELSE IF candidate # <<>> THEN Strip(candidate)
                        ELSE @]

\* lines 136-179: the loop over paragraphs
RECURSIVE ParagraphLoop(_, _, _, _, _)
ParagraphLoop(st, paragraphs, k, max_chunk_tokens, overlap_tokens) ==
    IF k > Len(paragraphs) THEN st
    ELSE ParagraphLoop(ParagraphStep(st, paragraphs[k], max_chunk_tokens, overlap_tokens),
                       paragraphs, k + 1, max_chunk_tokens, overlap_tokens)

\* lines 180-181: the chunks before the post-pass
RawChunks(transcript_text, max_chunk_tokens, overlap_tokens) ==
    LET st0 == [chunks |-> <<>>, current_chunk |-> <<>>, current_length |-> 0,
                overlap_text |-> <<>>]
        st == ParagraphLoop(st0, SplitNL(transcript_text), 1, max_chunk_tokens,
                            overlap_tokens)
    IN  IF st.current_chunk # <<>> THEN Append(st.chunks, CloseChunk(st.current_chunk))
        ELSE st.chunks

\* line 185
MergeTarget(n) == (n \div max_chunks) + (IF n % max_chunks > 0 THEN 1 ELSE 0)

\* concatenation of the parts of chunks[lo..hi]
RECURSIVE PartsOf(_, _, _)
PartsOf(chunks, lo, hi) ==
    IF lo > hi THEN <<>> ELSE chunks[lo].parts \o PartsOf(chunks, lo + 1, hi)

\* mutant: every group loses its last chunk (chunks[i:i+target-1])
RECURSIVE Consolidate_short(_, _, _, _)
Consolidate_short(chunks, i, target, consolidated) ==
    IF i > Len(chunks) THEN consolidated
    ELSE
      LET hi == IF i + target - 2 < Len(chunks) THEN i + target - 2 ELSE Len(chunks)
          group == SubSeq(chunks, i, hi)
          joined == [text |-> Join([k \in 1..Len(group) |-> group[k].text], <<NL>>),
                     parts |-> PartsOf(chunks, i, hi)]
          nxt == Append(consolidated, joined)
      IN  IF Len(nxt) >= max_chunks THEN nxt
          ELSE Consolidate_short(chunks, i + target, target, nxt)

\* lines 186-192: join adjacent groups of target chunks, stop at max_chunks
RECURSIVE Consolidate(_, _, _, _)
Consolidate(chunks, i, target, consolidated) ==
    IF i > Len(chunks) THEN consolidated
    ELSE
      LET hi == IF i + target - 1 < Len(chunks) THEN i + target - 1 ELSE Len(chunks)
          group == SubSeq(chunks, i, hi)
          joined == [text |-> Join([k \in 1..Len(group) |-> group[k].text], <<NL>>),
                     parts |-> PartsOf(chunks, i, hi)]
          nxt == Append(consolidated, joined)
      IN  IF Len(nxt) >= max_chunks THEN nxt
          ELSE Consolidate(chunks, i + target, target, nxt)

\* mutant: no post-pass
MergePass_uncapped(chunks) == chunks

\* mutant: the post-pass starts one chunk too late
MergePass_late(chunks) ==
    IF Len(chunks) > max_chunks + 1
    THEN Consolidate(chunks, 1, MergeTarget(Len(chunks)), <<>>)
    ELSE chunks

\* lines 182-193
MergePass(chunks) ==
    IF Len(chunks) > max_chunks
    THEN Consolidate(chunks, 1, MergeTarget(Len(chunks)), <<>>)
    ELSE chunks

\* the strings of a list of chunks
ChunkTexts(cs) == [k \in 1..Len(cs) |-> cs[k].text]

\* mutant: the fast path is taken only strictly below the budget
chunk_transcript_strict(transcript_text, max_chunk_tokens, overlap_tokens) ==
    IF estimate_tokens(transcript_text) < max_chunk_tokens
    THEN <<[text |-> transcript_text, parts |-> <<Piece(transcript_text, FALSE)>>]>>
    ELSE MergePass(RawChunks(transcript_text, max_chunk_tokens, overlap_tokens))

\* lines 125-193
chunk_transcript(transcript_text, max_chunk_tokens, overlap_tokens) ==
    IF estimate_tokens(transcript_text) <= max_chunk_tokens
    THEN <<[text |-> transcript_text, parts |-> <<Piece(transcript_text, FALSE)>>]>>
    ELSE MergePass(RawChunks(transcript_text, max_chunk_tokens, overlap_tokens))

(***************************************************************************)
(* Python values.  Every value carries its type in field t; the payload    *)
(* field differs per type, so values of different types compare unequal.   *)
(* An expression that may raise evaluates to a value or to Raise(type).    *)
(***************************************************************************)
PyStr(s) == [t |-> "str", s |-> s]

PyList(l) == [t |-> "list", l |-> l]

PyInt(n) == [t |-> "int", n |-> n]

PyBool(b) == [t |-> "bool", b |-> b]

\* d is a function from keys (character sequences) to values
PyDict(d) == [t |-> "dict", d |-> d]

PyNone == [t |-> "NoneType"]

EmptyDict == [k \in {} |-> PyNone]

Raise(type) == [raise |-> type]

IsRaise(x) == "raise" \in DOMAIN x

\* bool(v)
Truthy(v) ==
    CASE v.t = "str" -> v.s # <<>>
      [] v.t = "list" -> v.l # <<>>
      [] v.t = "int" -> v.n # 0
      [] v.t = "bool" -> v.b
      [] v.t = "dict" -> DOMAIN v.d # {}
      [] OTHER -> FALSE

\* d.get(key, default) of a dict d
DictGet(d, key, default) == IF key \in DOMAIN d.d THEN d.d[key] ELSE default

\* characters of the keys the code reads
KEY_SUMMARY == <<"s", "u", "m", "m", "a", "r", "y">>

KEY_ACTION_POINTS == <<"a", "c", "t", "i", "o", "n", "_", "p", "o", "i", "n", "t", "s">>

\* s.strip(chars)
StripChars(s, chars) ==
    LET keep == {i \in 1..Len(s) : s[i] \notin chars}
    IN  IF keep = {} THEN <<>> ELSE SubSeq(s, MinOf(keep), MaxOf(keep))

(***************************************************************************)
(* json.loads on the JSON the model's texts use: objects, arrays, strings  *)
(* without escapes, non-negative integers, null, true, false               *)
(***************************************************************************)
IsDigit(c) == c \in {"0", "1", "2", "3", "4", "5", "6", "7", "8", "9"}

DigitValue(c) == CHOOSE n \in 0..9 : ToString(n) = c

JsonFail == [ok |-> FALSE]

JsonOk(v, next) == [ok |-> TRUE, v |-> v, next |-> next]

\* first position at or after p that is not whitespace (Len(s) + 1 if none)
SkipWs(s, p) == MinOf({q \in p..(Len(s) + 1) : q > Len(s) \/ ~IsSpace(s[q])})

HasAt(s, p, word) == p + Len(word) - 1 <= Len(s) /\ SubSeq(s, p, p + Len(word) - 1) = word

\* a string literal opening at s[p] = '"'
ParseString(s, p) ==
    LET closes == {q \in (p + 1)..Len(s) : s[q] = "\""}
    IN  IF closes = {} THEN JsonFail
        ELSE LET q == MinOf(closes)
             IN  IF \E m \in (p + 1)..(q - 1) : s[m] = NL THEN JsonFail
                 ELSE JsonOk(PyStr(SubSeq(s, p + 1, q - 1)), q + 1)

RECURSIVE NumberValue(_)
NumberValue(digits) ==
    IF digits = <<>> THEN 0
    ELSE 10 * NumberValue(SubSeq(digits, 1, Len(digits) - 1)) + DigitValue(digits[Len(digits)])

\* a number opening at the digit s[p]; a leading zero ends the number
ParseNumber(s, p) ==
    LET q == IF s[p] = "0" THEN p
             ELSE MaxOf({k \in p..Len(s) : \A m \in p..k : IsDigit(s[m])})
    IN  JsonOk(PyInt(NumberValue(SubSeq(s, p, q))), q + 1)

DictSet(d, key, v) == [k \in DOMAIN d \cup {key} |-> IF k = key THEN v ELSE d[k]]

RECURSIVE ParseValue(_, _)
RECURSIVE ParseMembers(_, _, _)
RECURSIVE ParseElements(_, _, _)

\* the value that starts at s[p] (p is not whitespace)
ParseValue(s, p) ==
    IF p > Len(s) THEN JsonFail
    ELSE IF s[p] = "\"" THEN ParseString(s, p)
    ELSE IF s[p] = "{" THEN
        LET q == SkipWs(s, p + 1)
        IN  IF q <= Len(s) /\ s[q] = "}" THEN JsonOk(PyDict(EmptyDict), q + 1)
            ELSE ParseMembers(s, q, EmptyDict)
    ELSE IF s[p] = "[" THEN
        LET q == SkipWs(s, p + 1)
        IN  IF q <= Len(s) /\ s[q] = "]" THEN JsonOk(PyList(<<>>), q + 1)
            ELSE ParseElements(s, q, <<>>)
    ELSE IF HasAt(s, p, <<"n", "u", "l", "l">>) THEN JsonOk(PyNone, p + 4)
    ELSE IF HasAt(s, p, <<"t", "r", "u", "e">>) THEN JsonOk(PyBool(TRUE), p + 4)
    ELSE IF HasAt(s, p, <<"f", "a", "l", "s", "e">>) THEN JsonOk(PyBool(FALSE), p + 5)
    ELSE IF IsDigit(s[p]) THEN ParseNumber(s, p)
    ELSE JsonFail

\* "key": value pairs from s[p] up to the closing brace; a later key wins
ParseMembers(s, p, d) ==
    IF p > Len(s) \/ s[p] # "\"" THEN JsonFail
    ELSE
      LET key == ParseString(s, p)
      IN  IF ~key.ok THEN JsonFail
          ELSE
            LET colon == SkipWs(s, key.next)
            IN  IF colon > Len(s) \/ s[colon] # ":" THEN JsonFail
                ELSE
                  LET val == ParseValue(s, SkipWs(s, colon + 1))
                  IN  IF ~val.ok THEN JsonFail
                      ELSE
                        LET after == SkipWs(s, val.next)
                            d2 == DictSet(d, key.v.s, val.v)
                        IN  IF after > Len(s) THEN JsonFail
                            ELSE IF s[after] = "}" THEN JsonOk(PyDict(d2), after + 1)
                            ELSE IF s[after] = ","
                                 THEN ParseMembers(s, SkipWs(s, after + 1), d2)
                            ELSE JsonFail

\* values from s[p] up to the closing bracket
ParseElements(s, p, l) ==
    LET val == ParseValue(s, p)
    IN  IF ~val.ok THEN JsonFail
        ELSE
          LET after == SkipWs(s, val.next)
              l2 == Append(l, val.v)
          IN  IF after > Len(s) THEN JsonFail
              ELSE IF s[after] = "]" THEN JsonOk(PyList(l2), after + 1)
              ELSE IF s[after] = "," THEN ParseElements(s, SkipWs(s, after + 1), l2)
              ELSE JsonFail

\* json.loads(s): the value, or JSONDecodeError (also on trailing data)
json_loads(s) ==
    LET r == ParseValue(s, SkipWs(s, 1))
    IN  IF r.ok /\ SkipWs(s, r.next) > Len(s) THEN r.v ELSE Raise("JSONDecodeError")

(***************************************************************************)
(* parse_json_response                                                     *)
(***************************************************************************)
\* re.search(r'(\{.*\})', content, re.DOTALL): from the first '{' that has a
\* '}' after it to the last '}'; <<>> when there is no match
JsonSpan(content) ==
    LET opens == {p \in 1..Len(content) :
                     content[p] = "{" /\ \E q \in (p + 1)..Len(content) : content[q] = "}"}
    IN  IF opens = {} THEN <<>>
        ELSE SubSeq(content, MinOf(opens),
                    MaxOf({q \in 1..Len(content) : content[q] = "}"}))

\* lines 208-221; content is a str or None
parse_json_response(content) ==
    IF content.t # "str" THEN PyDict(EmptyDict)             \* len(None): TypeError
    ELSE
      LET json_str == JsonSpan(content.s)
          loaded == IF json_str # <<>> THEN json_loads(json_str)
                    ELSE json_loads(content.s)
      IN  IF IsRaise(loaded) THEN PyDict(EmptyDict) ELSE loaded

(***************************************************************************)
(* format_duration                                                         *)
(***************************************************************************)
RECURSIVE Digits(_)
Digits(n) == IF n < 10 THEN <<ToString(n)>> ELSE Digits(n \div 10) \o <<ToString(n % 10)>>

\* f"{n:02d}": at least two characters, the sign counts as one
Format02d(n) ==
    IF n < 0 THEN <<"-">> \o Digits(0 - n)
    ELSE IF n < 10 THEN <<"0">> \o Digits(n)
    ELSE Digits(n)

\* a float: whole + milli / 1000 with whole its floor, or nan, inf, -inf
PyFloat(whole, milli) == [t |-> "float", whole |-> whole, milli |-> milli]

PyFloatNonFinite(name) == [t |-> "float", nonfinite |-> name]

\* the values on which >=, // and % with an int and int() of the result work
IsFiniteNumber(v) ==
    v.t \in {"int", "bool"} \/ (v.t = "float" /\ "whole" \in DOMAIN v)

\* math.floor of a finite number; x // k and int(x % k) of the code depend
\* on x only through it
FloorOf(v) ==
    CASE v.t = "int" -> v.n
      [] v.t = "bool" -> IF v.b THEN 1 ELSE 0
      [] OTHER -> v.whole

\* lines 233-246; a value that is not a number, or int() of nan, raises
\* inside the try
format_duration(duration_seconds) ==
    IF ~IsFiniteNumber(duration_seconds) THEN PyStr(<<"0", "0", ":", "0", "0">>)
    ELSE
      LET d == FloorOf(duration_seconds)
      IN  IF d >= 3600
          THEN PyStr(Format02d(d \div 3600) \o <<":">> \o Format02d((d % 3600) \div 60)
                     \o <<":">> \o Format02d(d % 60))
          ELSE PyStr(Format02d(d \div 60) \o <<":">> \o Format02d(d % 60))

(***************************************************************************)
(* get_token_param_name (lines 85-90)                                      *)
(***************************************************************************)
\* sub in s
Contains(s, sub) == \E p \in 1..(Len(s) - Len(sub) + 1) : HasAt(s, p, sub)

\* line 86
newer_models ==
    << <<"o", "3">>,
       <<"g", "p", "t", "-", "4", "o">>,
       <<"g", "p", "t", "-", "4", ".", "5">> >>

PARAM_NEWER ==
    <<"m", "a", "x", "_", "c", "o", "m", "p", "l", "e", "t", "i", "o",
      "n", "_", "t", "o", "k", "e", "n", "s">>

PARAM_OLDER == <<"m", "a", "x", "_", "t", "o", "k", "e", "n", "s">>

\* mutant: the model name has to start with one of the names
get_token_param_name_prefix(model) ==
    IF model.t # "str" THEN Raise("TypeError")
    ELSE IF \E k \in 1..Len(newer_models) : HasAt(model.s, 1, newer_models[k])
    THEN PyStr(PARAM_NEWER)
    ELSE PyStr(PARAM_OLDER)

\* lines 85-90; `m in None` raises TypeError
get_token_param_name(model) ==
    IF model.t # "str" THEN Raise("TypeError")
    ELSE IF \E k \in 1..Len(newer_models) : Contains(model.s, newer_models[k])
    THEN PyStr(PARAM_NEWER)
    ELSE PyStr(PARAM_OLDER)

(***************************************************************************)
(* Configuration read at import (lines 23-28).  MODEL_CONTEXT_LIMIT and    *)
(* MAX_OUTPUT_TOKENS come from the environment; the model runs with a      *)
(* small context window so that a short text is already oversized.         *)
(***************************************************************************)
MODEL_CONTEXT_LIMIT == 10

MAX_OUTPUT_TOKENS == 8

MAX_RETRIES == 3

\* line 283: the ceiling of safe_chunk_size
SAFE_CHUNK_CEILING == 3000

\* line 286: overlap_tokens of the two-stage path
OVERLAP_TOKENS == 250

\* line 283
safe_chunk_size ==
    IF MODEL_CONTEXT_LIMIT - MAX_OUTPUT_TOKENS < SAFE_CHUNK_CEILING
    THEN MODEL_CONTEXT_LIMIT - MAX_OUTPUT_TOKENS
    ELSE SAFE_CHUNK_CEILING

\* line 331
DISCLAIMER ==
    <<"A", " ", "s", "u", "m", "m", "a", "r", "y", " ", "c", "o", "u", "l",
      "d", " ", "n", "o", "t", " ", "b", "e", " ", "g", "e", "n", "e", "r",
      "a", "t", "e", "d", " ", "d", "u", "e", " ", "t", "o", " ", "A", "P",
      "I", " ", "l", "i", "m", "i", "t", "a", "t", "i", "o", "n", "s", ".",
      " ", "P", "l", "e", "a", "s", "e", " ", "c", "h", "e", "c", "k", " ",
      "t", "h", "e", " ", "t", "r", "a", "n", "s", "c", "r", "i", "p", "t",
      " ", "f", "o", "r", " ", "m", "e", "e", "t", "i", "n", "g", " ", "c",
      "o", "n", "t", "e", "n", "t", ".">>

\* line 280: "Meeting " followed by the local time
MeetingTitle(timestamp) == <<"M", "e", "e", "t", "i", "n", "g", " ">> \o timestamp

(***************************************************************************)
(* call_openai_api under its retry decorator (lines 195-206), one backend  *)
(* attempt at a time.  An outcome of the backend is Raise(type) or         *)
(* [content |-> value]; the result says whether the call returned, raised  *)
(* to its caller or is attempted again.                                    *)
(***************************************************************************)
TransientErrors == {"ValueError", "JSONDecodeError"}

\* mutant: the decorator stops one attempt too late
call_openai_api_late(attempt_number, outcome) ==
    IF ~IsRaise(outcome)
    THEN IF outcome.content.t = "str"
         THEN [k |-> "return", content |-> PyStr(Strip(outcome.content.s))]
         ELSE [k |-> "raise", raise |-> "AttributeError"]
    ELSE IF outcome.raise \in TransientErrors
         THEN IF attempt_number <= MAX_RETRIES
              THEN [k |-> "retry"]
              ELSE [k |-> "raise", raise |-> "RetryError"]
         ELSE [k |-> "raise", raise |-> outcome.raise]

\* mutant: the decorator retries after an exception of any type
call_openai_api_anyerror(attempt_number, outcome) ==
    IF ~IsRaise(outcome) /\ outcome.content.t = "str"
    THEN [k |-> "return", content |-> PyStr(Strip(outcome.content.s))]
    ELSE IF attempt_number < MAX_RETRIES
         THEN [k |-> "retry"]
         ELSE [k |-> "raise", raise |-> "RetryError"]

call_openai_api(attempt_number, outcome) ==
    IF ~IsRaise(outcome)
    THEN IF outcome.content.t = "str"
         THEN [k |-> "return", content |-> PyStr(Strip(outcome.content.s))]
         ELSE [k |-> "raise", raise |-> "AttributeError"]   \* None.strip()
    ELSE IF outcome.raise \in TransientErrors
         THEN IF attempt_number < MAX_RETRIES
              THEN [k |-> "retry"]
              ELSE [k |-> "raise", raise |-> "RetryError"]
         ELSE [k |-> "raise", raise |-> outcome.raise]

(***************************************************************************)
(* generate_meeting_minutes: records and the steps between two requests    *)
(***************************************************************************)
\* lines 223-231
create_fallback_meeting_minutes(transcript_, speakers_, duration_seconds_) ==
    [title |-> PyStr(<<>>),
     duration |-> format_duration(duration_seconds_),
     summary |-> PyStr(<<>>),
     action_points |-> PyList(<<>>),
     transcription |-> transcript_,
     speakers |-> IF Truthy(speakers_) THEN speakers_ ELSE PyList(<<>>)]

\* mutant: the guard forgets the credential
GuardFails_nokey(transcript_, api_key_) == ~Truthy(transcript_)

\* lines 253-258: the guard that returns before any request
GuardFails(transcript_, api_key_) == ~Truthy(transcript_) \/ ~Truthy(api_key_)

\* line 277
TitleFrom(title_content) == PyStr(StripChars(Strip(title_content.s), {"\""}))

\* hash(v) is defined
Hashable(v) == v.t \notin {"list", "dict"}

\* the == of dict keys: equal values, and True == 1, False == 0
KeyEq(a, b) ==
    \/ a = b
    \/ /\ a.t = "bool" /\ b.t = "int" /\ b.n = (IF a.b THEN 1 ELSE 0)
    \/ /\ a.t = "int" /\ b.t = "bool" /\ a.n = (IF b.b THEN 1 ELSE 0)

\* mutant: no deduplication
Dedup_none(xs) == xs

\* list(dict.fromkeys(xs)): the first occurrence of every key, in order
RECURSIVE Dedup(_)
Dedup(xs) ==
    IF xs = <<>> THEN <<>>
    ELSE LET init == Dedup(SubSeq(xs, 1, Len(xs) - 1))
             last == xs[Len(xs)]
         IN  IF \E k \in 1..Len(init) : KeyEq(init[k], last) THEN init
             ELSE Append(init, last)

\* lines 304-309: what a chunk's parsed response adds to the two accumulators;
\* an AttributeError raised on the way is caught at line 310
ProcessResult(result_, summaries, actions) ==
    LET same == [summaries |-> summaries, actions |-> actions]
        got == DictGet(result_, KEY_SUMMARY, PyStr(<<>>))
        points == DictGet(result_, KEY_ACTION_POINTS, PyNone)
    IN  IF ~Truthy(result_) THEN same
        ELSE IF result_.t # "dict" THEN same                 \* result.get
        ELSE IF got.t # "str" THEN same                      \* .strip()
        ELSE [summaries |-> IF Strip(got.s) # <<>>
                            THEN Append(summaries, Strip(got.s))
                            ELSE summaries,
              actions |-> IF points.t = "list" THEN actions \o points.l
                          ELSE actions]

\* lines 303-309
ProcessChunk(content, summaries, actions) ==
    ProcessResult(parse_json_response(content), summaries, actions)

\* mutant: the check for collected summaries is lost
NoChunkSummary_never(summaries) == FALSE

\* lines 312-314
NoChunkSummary(summaries) == summaries = <<>>

\* mutant: an empty consolidation summary is kept as it is
AssembleTwoStage_nodisclaimer(final_result_, title_, actions, transcript_, speakers_, duration_seconds_) ==
    LET got == DictGet(final_result_, KEY_SUMMARY, PyStr(<<>>))
        final_actions == DictGet(final_result_, KEY_ACTION_POINTS, PyList(<<>>))
    IN  IF final_result_.t # "dict" THEN Raise("AttributeError")
        ELSE IF got.t # "str" THEN Raise("AttributeError")
        ELSE IF actions # <<>> /\ \E k \in 1..Len(actions) : ~Hashable(actions[k])
        THEN Raise("TypeError")
        ELSE [title |-> title_,
              duration |-> format_duration(duration_seconds_),
              summary |-> PyStr(Strip(got.s)),
              action_points |-> IF actions # <<>> THEN PyList(Dedup(actions))
                                ELSE final_actions,
              transcription |-> transcript_,
              speakers |-> IF Truthy(speakers_) THEN speakers_ ELSE PyList(<<>>)]

\* lines 328-340: the record of the two-stage path from the parsed
\* consolidation response, or the exception raised
AssembleTwoStage(final_result_, title_, actions, transcript_, speakers_, duration_seconds_) ==
    LET got == DictGet(final_result_, KEY_SUMMARY, PyStr(<<>>))
        final_actions == DictGet(final_result_, KEY_ACTION_POINTS, PyList(<<>>))
    IN  IF final_result_.t # "dict" THEN Raise("AttributeError")
        ELSE IF got.t # "str" THEN Raise("AttributeError")
        ELSE IF actions # <<>> /\ \E k \in 1..Len(actions) : ~Hashable(actions[k])
        THEN Raise("TypeError")
        ELSE [title |-> title_,
              duration |-> format_duration(duration_seconds_),
              summary |-> IF Strip(got.s) # <<>> THEN PyStr(Strip(got.s))
                          ELSE PyStr(DISCLAIMER),
              action_points |-> IF actions # <<>> THEN PyList(Dedup(actions))
                                ELSE final_actions,
              transcription |-> transcript_,
              speakers |-> IF Truthy(speakers_) THEN speakers_ ELSE PyList(<<>>)]

\* mutant: speakers is passed on as given, None included
AssembleSingle_rawspeakers(res, title_, transcript_, speakers_, duration_seconds_) ==
    IF res.t # "dict" THEN Raise("AttributeError")
    ELSE [title |-> title_,
          duration |-> format_duration(duration_seconds_),
          summary |-> DictGet(res, KEY_SUMMARY, PyStr(<<>>)),
          action_points |-> DictGet(res, KEY_ACTION_POINTS, PyList(<<>>)),
          transcription |-> transcript_,
          speakers |-> speakers_]

\* lines 354-362: the record of the single-shot path from the parsed
\* response, or the exception raised
AssembleSingle(res, title_, transcript_, speakers_, duration_seconds_) ==
    IF res.t # "dict" THEN Raise("AttributeError")
    ELSE [title |-> title_,
          duration |-> format_duration(duration_seconds_),
          summary |-> DictGet(res, KEY_SUMMARY, PyStr(<<>>)),
          action_points |-> DictGet(res, KEY_ACTION_POINTS, PyList(<<>>)),
          transcription |-> transcript_,
          speakers |-> IF Truthy(speakers_) THEN speakers_ ELSE PyList(<<>>)]

\* mutant: no handler at the top level, the exception leaves the function
TopLevelExcept_none(exc, transcript_, speakers_, duration_seconds_) ==
    [pc |-> "raised", result |-> PyNone]

\* lines 363-365: how the call ends when exception exc reaches the top level
TopLevelExcept(exc, transcript_, speakers_, duration_seconds_) ==
    [pc |-> "done",
     result |-> create_fallback_meeting_minutes(transcript_, speakers_, duration_seconds_)]

(***************************************************************************)
(* The params of the requests (lines 265-352).  A params dict maps its     *)
(* keys to values; the system message is the name of its prompt and, for   *)
(* a chunk, the position interpolated into it.                             *)
(***************************************************************************)
\* line 22: "gpt-4o" unless OPENAI_MODEL is set
DEFAULT_MODEL == PyStr(<<"g", "p", "t", "-", "4", "o">>)

\* values OPENAI_MODEL may give DEFAULT_MODEL
ConfiguredModels ==
    { DEFAULT_MODEL,
      PyStr(<<"g", "p", "t", "-", "4">>),
      PyStr(<<"o", "3", "-", "m", "i", "n", "i">>),
      PyStr(<<"O", "3", "-", "M", "I", "N", "I">>) }

UPPERCASE ==
    <<"A", "B", "C", "D", "E", "F", "G", "H", "I", "J", "K", "L", "M", "N", "O", "P",
      "Q", "R", "S", "T", "U", "V", "W", "X", "Y", "Z">>

LOWERCASE ==
    <<"a", "b", "c", "d", "e", "f", "g", "h", "i", "j", "k", "l", "m", "n", "o", "p",
      "q", "r", "s", "t", "u", "v", "w", "x", "y", "z">>

\* s.lower()
Lower(s) ==
    [k \in 1..Len(s) |->
        IF \E n \in 1..Len(UPPERCASE) : UPPERCASE[n] = s[k]
        THEN LOWERCASE[CHOOSE n \in 1..Len(UPPERCASE) : UPPERCASE[n] = s[k]]
        ELSE s[k]]

O3_MINI == <<"o", "3", "-", "m", "i", "n", "i">>

\* mutant: the comparison is case-sensitive
model_supports_temperature_cased(model_name_) == ~Contains(model_name_.s, O3_MINI)

\* lines 92-93
model_supports_temperature(model_name_) == ~Contains(Lower(model_name_.s), O3_MINI)

K_MODEL == <<"m", "o", "d", "e", "l">>

K_MESSAGES == <<"m", "e", "s", "s", "a", "g", "e", "s">>

K_TEMPERATURE == <<"t", "e", "m", "p", "e", "r", "a", "t", "u", "r", "e">>

\* line 269: transcript[:1000]
TITLE_SAMPLE_CHARS == 1000

\* line 271: the token limit of the title request
TITLE_TOKENS == 20

\* s[:n]
Slice(s, n) == SubSeq(s, 1, IF Len(s) < n THEN Len(s) ELSE n)

\* the dict literal of lines 265-274 (likewise 291-300, 316-325, 343-352):
\* model, messages, the token-limit key, and temperature when supported
Params(model, system, user, limit) ==
    LET token_param == get_token_param_name(model).s
        keys == {K_MODEL, K_MESSAGES, token_param}
                    \cup (IF model_supports_temperature(model) THEN {K_TEMPERATURE}
                          ELSE {})
    IN  [key \in keys |->
            IF key = token_param THEN PyInt(limit)
            ELSE IF key = K_MODEL THEN model
            ELSE IF key = K_MESSAGES THEN [system |-> system, user |-> user]
            ELSE PyFloat(0, 300)]

\* mutant: the title request carries the whole transcript
TitleRequest_whole(model, transcript_) ==
    Params(model, [prompt |-> "title", chunk_position |-> "none"],
           transcript_.s, TITLE_TOKENS)

\* lines 265-274
TitleRequest(model, transcript_) ==
    Params(model, [prompt |-> "title", chunk_position |-> "none"],
           Slice(transcript_.s, TITLE_SAMPLE_CHARS), TITLE_TOKENS)

\* mutant: the last chunk is looked for one position early
ChunkPosition_early(k, n) ==
    IF k = 1 THEN "beginning" ELSE IF k = n - 1 THEN "end" ELSE "middle"

\* line 290
ChunkPosition(k, n) ==
    IF k = 1 THEN "beginning" ELSE IF k = n THEN "end" ELSE "middle"

\* lines 290-300: the request of the k-th of the chunks cs
ChunkRequest(model, cs, k) ==
    Params(model, [prompt |-> "chunk", chunk_position |-> ChunkPosition(k, Len(cs))],
           cs[k], MAX_OUTPUT_TOKENS)

\* lines 315-325
FinalRequest(model, summaries) ==
    Params(model, [prompt |-> "final", chunk_position |-> "none"],
           Join(summaries, <<" ">>), MAX_OUTPUT_TOKENS)

\* lines 343-352
SingleRequest(model, transcript_) ==
    Params(model, [prompt |-> "single", chunk_position |-> "none"],
           transcript_.s, MAX_OUTPUT_TOKENS)

(***************************************************************************)
(* State                                                                   *)
(***************************************************************************)
VARIABLES
    \* a call of chunk_transcript on its own
    transcript_text, max_chunk_tokens, overlap_tokens,
    ct_pc,          \* "call" before the call, "done" after it returned
    returned,       \* the list chunk_transcript returned
    \* a call of generate_meeting_minutes
    transcript, speakers, duration_seconds,     \* the arguments
    api_key,        \* os.getenv("OPENAI_API_KEY")
    pc,             \* "start", the request in progress ("title", "chunk",
                    \* "final", "single"), "done" (returned) or "raised"
    attempt,        \* number of the backend attempt in progress, 0 if none
    title, chunks, per_chunk_summaries, chunk_actions,
    i,              \* number of the chunk whose request is in progress (from 1)
    final_result,   \* parsed consolidation response, or the Raise of that call
    result,         \* the returned record
    requests,       \* ghost: calls of call_openai_api made, per kind
    model_name,     \* DEFAULT_MODEL, read from the environment at import
    sent,           \* ghost: the params of every request built, in order
    all_transient,  \* ghost: every backend attempt so far raised a transient error
    \* a call of call_openai_api on its own
    call_pc,        \* "running", "returned" or "raised"
    backend_calls,  \* ghost: the outcomes of the backend invocations, in order
    call_value,     \* the text returned or the Raise that left the call
    \* a call of one of the helper functions on its own
    helper,         \* name of the function called
    helper_pc,      \* "call" before the call, "done" after it returned
    helper_arg,     \* its argument
    helper_ret,     \* what it returned
    \* process_file_background after generate_meeting_minutes returned
    caller_pc,      \* "returned", "overwritten", "completed"
    minutes,        \* the caller's dict (the object generate_meeting_minutes returned)
    meeting_title,  \* title made from the file name
    audio_duration, \* duration string of the diarizer, or "N/A"
    pdf_path,
    \* uploads processed by concurrent threads, and the files they share
    job_pc,         \* per job: position of its process_file_background thread
    job_minutes,    \* per job: generate_meeting_minutes has returned
    job_doc,        \* per job: the local pdf_path ("none", "pdf" or "txt")
    records,        \* job_results/<job_id>.json per job
    uploads,        \* per job: the uploaded file exists
    pdf_files,      \* per job: the PDF generate_pdf wrote exists
    txt_files,      \* per job: <job_id>_minutes.txt exists
    now,            \* what datetime.now() returns
    updates         \* ghost: per job, the statuses passed to update_job_status

ctvars == <<transcript_text, max_chunk_tokens, overlap_tokens, ct_pc, returned>>

gmvars == <<transcript, speakers, duration_seconds, api_key, pc, attempt, title,
            chunks, per_chunk_summaries, chunk_actions, i, final_result, result,
            requests, all_transient, model_name, sent>>

cavars == <<call_pc, backend_calls, call_value>>

hvars == <<helper, helper_pc, helper_arg, helper_ret>>

pfvars == <<caller_pc, minutes, meeting_title, audio_duration, pdf_path>>

jbvars == <<job_pc, job_minutes, job_doc, records, uploads, pdf_files, txt_files, now,
            updates>>

vars == <<ctvars, gmvars, cavars, hvars, pfvars, jbvars>>

\* the variables that a step of one function leaves alone
notgm == <<ctvars, cavars, hvars, pfvars, jbvars>>

notct == <<gmvars, cavars, hvars, pfvars, jbvars>>

notca == <<ctvars, gmvars, hvars, pfvars, jbvars>>

nothelper == <<ctvars, gmvars, cavars, pfvars, jbvars>>

notcaller == <<ctvars, cavars, hvars, jbvars>>

notjobs == <<ctvars, gmvars, cavars, hvars, pfvars>>

\* generate_meeting_minutes is not running
GmIdle ==
    /\ transcript = PyNone /\ speakers = PyNone /\ duration_seconds = PyNone
    /\ api_key = PyNone /\ pc = "idle" /\ attempt = 0 /\ title = PyNone
    /\ model_name = PyNone
    /\ chunks = <<>> /\ per_chunk_summaries = <<>> /\ chunk_actions = <<>>
    /\ i = 0 /\ final_result = PyNone /\ result = PyNone
    /\ requests = [title |-> 0, chunk |-> 0, final |-> 0, single |-> 0]
    /\ sent = <<>>
    /\ all_transient = TRUE

\* chunk_transcript is not called on its own
CtIdle ==
    /\ transcript_text = <<>> /\ max_chunk_tokens = 0 /\ overlap_tokens = 0
    /\ ct_pc = "idle" /\ returned = <<>>

\* call_openai_api is not called on its own
CaIdle == call_pc = "idle" /\ backend_calls = <<>> /\ call_value = PyNone

\* no helper function is called on its own
HelperIdle ==
    /\ helper = "none" /\ helper_pc = "idle" /\ helper_arg = PyNone
    /\ helper_ret = PyNone

\* process_file_background is not running
CallerIdle ==
    /\ caller_pc = "idle" /\ minutes = PyNone /\ meeting_title = PyNone
    /\ audio_duration = PyNone /\ pdf_path = PyNone

\* no upload is being processed
JobsIdle ==
    /\ job_pc = <<>> /\ job_minutes = <<>> /\ job_doc = <<>> /\ records = <<>>
    /\ uploads = <<>> /\ pdf_files = <<>> /\ txt_files = <<>> /\ now = 0
    /\ updates = <<>>

(***************************************************************************)
(* Inputs of chunk_transcript: a few arbitrary paragraphs followed by a    *)
(* repeated paragraph, joined by line breaks                               *)
(***************************************************************************)
ParagraphKinds ==
    { Rep("a", 4),                                          \* one token
      Rep("a", 7),                                          \* one token, 3 chars spare
      Rep("a", 12),                                         \* one long sentence
      Join(<<Rep("a", 3) \o <<".">>, Rep("a", 3) \o <<".">>,
             Rep("a", 3) \o <<".">>>>, <<" ">>),            \* three short sentences
      Join(<<Rep("a", 7) \o <<"!">>, Rep("a", 7) \o <<"?">>>>, <<" ">>),
      <<"a", "a", ".", " ">>,                               \* trailing whitespace
      <<" ">> }                                             \* blank line

TailKinds == { Rep("a", 4), Rep("a", 7) }

\* repetition counts around the multiples of the chunk cap
TailCounts == {n \in 0..MaxTail : n % max_chunks <= 1}

Prefixes == UNION {[1..n -> ParagraphKinds] : n \in 0..MaxPrefix}

Repeat(p, n) == [k \in 1..n |-> p]

InitChunk ==
    /\ \E prefix \in Prefixes, tail \in TailKinds, n \in TailCounts :
          transcript_text = Join(prefix \o Repeat(tail, n), <<NL>>)
    /\ max_chunk_tokens \in 1..MaxBudget
    /\ overlap_tokens \in 0..MaxOverlap
    /\ ct_pc = "call"
    /\ returned = <<>>
    /\ GmIdle /\ CaIdle /\ HelperIdle /\ CallerIdle /\ JobsIdle

\* the caller receives the list of chunk_transcript
ChunkCall ==
    /\ ct_pc = "call"
    /\ returned' = chunk_transcript(transcript_text, max_chunk_tokens, overlap_tokens)
    /\ ct_pc' = "done"
    /\ UNCHANGED <<transcript_text, max_chunk_tokens, overlap_tokens>>
    /\ UNCHANGED notct

NextChunk == ChunkCall

SpecChunk == InitChunk /\ [][NextChunk]_vars

(***************************************************************************)
(* Inputs of generate_meeting_minutes and texts the backend may answer     *)
(***************************************************************************)
Quoted(s) == <<"\"">> \o s \o <<"\"">>

Member(key, value) == Quoted(key) \o <<":">> \o value

Object(members) == <<"{">> \o Join(members, <<",">>) \o <<"}">>

Array(elements) == <<"[">> \o Join(elements, <<",">>) \o <<"]">>

LongParagraph == Rep("a", 11) \o <<".">>

\* estimated at exactly safe_chunk_size
BoundaryTranscript == PyStr(Rep("a", 4 * safe_chunk_size + 3))

\* longer than the sample the title request takes; two chunks
SampledTranscript == PyStr(Repeat("a", TITLE_SAMPLE_CHARS + 1) \o <<NL>> \o Rep("b", 4))

Transcripts ==
    { PyNone,
      PyStr(<<>>),
      PyStr(Rep("a", 4)),                                   \* fits one request
      PyStr(Rep(" ", 12) \o <<NL>> \o Rep(" ", 12)),         \* oversized, only blanks
      PyStr(Join(<<LongParagraph, LongParagraph, LongParagraph>>, <<NL>>)) }

SpeakerLists == { PyNone, PyList(<<>>), PyList(<<PyStr(<<"S">>), PyStr(<<"T">>)>>) }

Durations == { PyNone, PyInt(0), PyInt(3600) }

ApiKeys == { PyNone, PyStr(<<"k">>) }

Timestamps == { <<"0", "3", " ", "N", "o", "v", " ", "2", "0", "2", "6", " ",
                  "1", "8", ":", "4", "2">> }

TEXT_FULL_X ==
    Object(<<Member(KEY_SUMMARY, Quoted(<<"X">>)),
             Member(KEY_ACTION_POINTS, Array(<<Quoted(<<"A">>), Quoted(<<"B">>)>>))>>)

TEXT_FULL_Y ==
    Object(<<Member(KEY_SUMMARY, Quoted(<<"Y">>)),
             Member(KEY_ACTION_POINTS,
                    Array(<<Quoted(<<"B">>), Quoted(<<"C">>), Quoted(<<"B">>)>>))>>)

\* prose around the object, blanks around the text
TEXT_PROSE ==
    <<" ", "O", "K", " ">> \o Object(<<Member(KEY_SUMMARY, Quoted(<<"X">>))>>)
        \o <<" ", "b", "y", "e", NL>>

TEXT_BLANK_SUMMARY ==
    Object(<<Member(KEY_SUMMARY, Quoted(<<" ">>)),
             Member(KEY_ACTION_POINTS, Array(<<Quoted(<<"A">>)>>))>>)

TEXT_WRONG_TYPES ==
    Object(<<Member(KEY_SUMMARY, <<"5">>), Member(KEY_ACTION_POINTS, Quoted(<<"A">>))>>)

TEXT_ACTIONS_NOT_LIST == Object(<<Member(KEY_ACTION_POINTS, Quoted(<<"A">>))>>)

TEXT_UNHASHABLE ==
    Object(<<Member(KEY_SUMMARY, Quoted(<<"X">>)),
             Member(KEY_ACTION_POINTS, Array(<<Array(<<Quoted(<<"A">>)>>)>>))>>)

TEXT_UNBALANCED == <<"{">> \o Member(KEY_SUMMARY, Quoted(<<"X">>))

TEXT_NULL == <<"n", "u", "l", "l">>

TEXT_EMPTY_OBJECT == <<"{", "}">>

TEXT_QUOTED_TITLE == Quoted(<<"T">>)

ResponseTexts ==
    { TEXT_FULL_X, TEXT_FULL_Y, TEXT_PROSE, TEXT_BLANK_SUMMARY, TEXT_WRONG_TYPES,
      TEXT_ACTIONS_NOT_LIST, TEXT_UNHASHABLE, TEXT_UNBALANCED, TEXT_NULL,
      TEXT_EMPTY_OBJECT, TEXT_QUOTED_TITLE }

TitleTexts == { TEXT_QUOTED_TITLE, TEXT_PROSE }

Failures == { Raise("ValueError"), Raise("JSONDecodeError"), Raise("APIError"),
              [content |-> PyNone] }

\* what one backend attempt may do
Outcomes == Failures \cup {[content |-> PyStr(text)] : text \in ResponseTexts}

TitleOutcomes == Failures \cup {[content |-> PyStr(text)] : text \in TitleTexts}

\* 2 * max_chunks - 1 paragraphs, each estimated at safe_chunk_size: as many
\* raw chunks, which lines 182-193 join into max_chunks chunks
ManyParagraphs ==
    PyStr(Join(Repeat(Rep("a", 4 * safe_chunk_size), 2 * max_chunks - 1), <<NL>>))

\* what an attempt of a chunk request may do; for the transcript of
\* max_chunks chunks a transient failure or a full summary
ChunkOutcomes(transcript_) ==
    IF transcript_ = ManyParagraphs
    THEN {Raise("ValueError"), [content |-> PyStr(TEXT_FULL_X)]}
    ELSE Outcomes

IsTransient(outcome) == IsRaise(outcome) /\ outcome.raise \in TransientErrors

(***************************************************************************)
(* generate_meeting_minutes (lines 251-365)                                *)
(***************************************************************************)
Init ==
    /\ \/ /\ model_name = DEFAULT_MODEL
          /\ transcript \in Transcripts
          /\ speakers \in SpeakerLists
          /\ duration_seconds \in Durations
          /\ api_key \in ApiKeys
       \/ /\ model_name \in ConfiguredModels
          /\ transcript \in {PyStr(Rep("a", 4)), BoundaryTranscript, SampledTranscript}
          /\ speakers = PyNone
          /\ duration_seconds = PyInt(0)
          /\ api_key = PyStr(<<"k">>)
       \/ /\ model_name = DEFAULT_MODEL
          /\ transcript = ManyParagraphs
          /\ speakers = PyNone
          /\ duration_seconds = PyInt(0)
          /\ api_key = PyStr(<<"k">>)
    /\ pc = "start" /\ attempt = 0 /\ title = PyNone
    /\ chunks = <<>> /\ per_chunk_summaries = <<>> /\ chunk_actions = <<>>
    /\ i = 0 /\ final_result = PyNone /\ result = PyNone
    /\ requests = [title |-> 0, chunk |-> 0, final |-> 0, single |-> 0]
    /\ sent = <<>>
    /\ all_transient = TRUE
    /\ CtIdle /\ CaIdle /\ HelperIdle /\ CallerIdle /\ JobsIdle

\* the call ends: with the record, or with the exception handled at line 363
Finish(out) ==
    LET end == IF IsRaise(out)
               THEN TopLevelExcept(out.raise, transcript, speakers, duration_seconds)
               ELSE [pc |-> "done", result |-> out]
    IN  /\ pc' = end.pc
        /\ result' = end.result
        /\ attempt' = 0

\* lines 252-274: the guard, then the title request is issued
Enter ==
    /\ pc = "start"
    /\ IF GuardFails(transcript, api_key)
       THEN /\ Finish(create_fallback_meeting_minutes(transcript, speakers,
                                                      duration_seconds))
            /\ UNCHANGED <<requests, sent>>
       ELSE /\ pc' = "title"
            /\ attempt' = 1
            /\ requests' = [requests EXCEPT !.title = @ + 1]
            /\ sent' = Append(sent, TitleRequest(model_name, transcript))
            /\ UNCHANGED result
    /\ UNCHANGED <<model_name, transcript, speakers, duration_seconds, api_key, title, chunks,
                   per_chunk_summaries, chunk_actions, i, final_result,
                   all_transient>>
    /\ UNCHANGED notgm

\* a transient failure before the last attempt: the decorator calls again
Retry(outcome) ==
    /\ attempt' = attempt + 1
    /\ all_transient' = (all_transient /\ IsTransient(outcome))
    /\ UNCHANGED <<model_name, transcript, speakers, duration_seconds, api_key, pc, title, chunks,
                   per_chunk_summaries, chunk_actions, i, final_result, result,
                   requests, sent>>
    /\ UNCHANGED notgm

\* mutant: a transcript estimated at exactly safe_chunk_size is treated as
\* too large
Sizing_atlimit(cs) ==
    IF estimate_tokens(transcript.s) >= safe_chunk_size
    THEN /\ chunks' = cs
         /\ IF cs = <<>>
            THEN /\ Finish(create_fallback_meeting_minutes(transcript, speakers,
                                                           duration_seconds))
                 /\ UNCHANGED <<i, requests, sent>>
            ELSE /\ pc' = "chunk"
                 /\ i' = 1
                 /\ attempt' = 1
                 /\ requests' = [requests EXCEPT !.chunk = @ + 1]
                 /\ sent' = Append(sent, ChunkRequest(model_name, cs, 1))
                 /\ UNCHANGED result
    ELSE /\ pc' = "single"
         /\ attempt' = 1
         /\ requests' = [requests EXCEPT !.single = @ + 1]
         /\ sent' = Append(sent, SingleRequest(model_name, transcript))
         /\ UNCHANGED <<chunks, i, result>>

\* lines 282-289: the sizing decision once the title is known: the request
\* of the first chunk (cs are the chunks) or the single-shot request
Sizing(cs) ==
    IF estimate_tokens(transcript.s) > safe_chunk_size
    THEN /\ chunks' = cs
         /\ IF cs = <<>>
            THEN /\ Finish(create_fallback_meeting_minutes(transcript, speakers,
                                                           duration_seconds))
                 /\ UNCHANGED <<i, requests, sent>>
            ELSE /\ pc' = "chunk"
                 /\ i' = 1
                 /\ attempt' = 1
                 /\ requests' = [requests EXCEPT !.chunk = @ + 1]
                 /\ sent' = Append(sent, ChunkRequest(model_name, cs, 1))
                 /\ UNCHANGED result
    ELSE /\ pc' = "single"
         /\ attempt' = 1
         /\ requests' = [requests EXCEPT !.single = @ + 1]
         /\ sent' = Append(sent, SingleRequest(model_name, transcript))
         /\ UNCHANGED <<chunks, i, result>>

\* lines 275-289: an attempt of the title request; once the title is known,
\* the sizing decision and the first summary request
TitleAttempt(outcome, timestamp) ==
    /\ pc = "title"
    /\ LET r == call_openai_api(attempt, outcome)
       IN  IF r.k = "retry" THEN Retry(outcome)
           ELSE
             /\ title' = IF r.k = "return" THEN TitleFrom(r.content)
                         ELSE PyStr(MeetingTitle(timestamp))
             /\ all_transient' = (all_transient /\ IsTransient(outcome))
             /\ Sizing(IF estimate_tokens(transcript.s) > safe_chunk_size
                       THEN ChunkTexts(chunk_transcript(transcript.s, safe_chunk_size,
                                                        OVERLAP_TOKENS))
                       ELSE <<>>)
             /\ UNCHANGED <<model_name, transcript, speakers, duration_seconds, api_key,
                            per_chunk_summaries, chunk_actions, final_result>>
             /\ UNCHANGED notgm

\* lines 289-326: the request of chunk i is over and acc are the accumulators:
\* the next chunk's request, the fallback of line 314 or the consolidation
\* request
ChunkOver(acc) ==
    /\ per_chunk_summaries' = acc.summaries
    /\ chunk_actions' = acc.actions
    /\ IF i < Len(chunks)
       THEN /\ i' = i + 1
            /\ attempt' = 1
            /\ requests' = [requests EXCEPT !.chunk = @ + 1]
            /\ sent' = Append(sent, ChunkRequest(model_name, chunks, i + 1))
            /\ UNCHANGED <<pc, result>>
       ELSE IF NoChunkSummary(acc.summaries)
       THEN /\ Finish(create_fallback_meeting_minutes(transcript, speakers,
                                                      duration_seconds))
            /\ UNCHANGED <<i, requests, sent>>
       ELSE /\ pc' = "final"
            /\ attempt' = 1
            /\ requests' = [requests EXCEPT !.final = @ + 1]
            /\ sent' = Append(sent, FinalRequest(model_name, acc.summaries))
            /\ UNCHANGED <<i, result>>

\* mutant: no try/except around the chunk's request: an exception of the
\* call ends the loop and reaches the handler of line 363
ChunkAttempt_abort(outcome) ==
    /\ pc = "chunk"
    /\ outcome \in ChunkOutcomes(transcript)
    /\ LET r == call_openai_api(attempt, outcome)
       IN  IF r.k = "retry" THEN Retry(outcome)
           ELSE
             /\ IF r.k = "return"
                THEN ChunkOver(ProcessChunk(r.content, per_chunk_summaries,
                                            chunk_actions))
                ELSE /\ Finish(Raise(r.raise))
                     /\ UNCHANGED <<per_chunk_summaries, chunk_actions, i, requests, sent>>
             /\ all_transient' = (all_transient /\ IsTransient(outcome))
             /\ UNCHANGED <<model_name, transcript, speakers, duration_seconds, api_key, title,
                            chunks, final_result>>
             /\ UNCHANGED notgm

\* lines 289-326: an attempt of the request of chunk i
ChunkAttempt(outcome) ==
    /\ pc = "chunk"
    /\ outcome \in ChunkOutcomes(transcript)
    /\ LET r == call_openai_api(attempt, outcome)
       IN  IF r.k = "retry" THEN Retry(outcome)
           ELSE
             /\ ChunkOver(IF r.k = "return"
                          THEN ProcessChunk(r.content, per_chunk_summaries,
                                            chunk_actions)
                          ELSE [summaries |-> per_chunk_summaries,
                                actions |-> chunk_actions])
             /\ all_transient' = (all_transient /\ IsTransient(outcome))
             /\ UNCHANGED <<model_name, transcript, speakers, duration_seconds, api_key, title,
                            chunks, final_result>>
             /\ UNCHANGED notgm

\* lines 327-340, 363-365: the consolidation call is over with the parsed
\* response or the exception it raised
FinalOver(parsed) ==
    /\ final_result' = parsed
    /\ Finish(IF IsRaise(parsed) THEN parsed
              ELSE AssembleTwoStage(parsed, title, chunk_actions, transcript, speakers,
                                    duration_seconds))

\* lines 326-340: an attempt of the consolidation request and the return
FinalAttempt(outcome) ==
    /\ pc = "final"
    /\ LET r == call_openai_api(attempt, outcome)
       IN  IF r.k = "retry" THEN Retry(outcome)
           ELSE
             /\ FinalOver(IF r.k = "return" THEN parse_json_response(r.content)
                          ELSE Raise(r.raise))
             /\ all_transient' = (all_transient /\ IsTransient(outcome))
             /\ UNCHANGED <<model_name, transcript, speakers, duration_seconds, api_key, title,
                            chunks, per_chunk_summaries, chunk_actions, i, requests, sent>>
             /\ UNCHANGED notgm

\* lines 342-362: an attempt of the single-shot request and the return
SingleAttempt(outcome) ==
    /\ pc = "single"
    /\ LET r == call_openai_api(attempt, outcome)
       IN  IF r.k = "retry" THEN Retry(outcome)
           ELSE
             /\ Finish(IF r.k = "return"
                       THEN AssembleSingle(parse_json_response(r.content), title,
                                           transcript, speakers, duration_seconds)
                       ELSE Raise(r.raise))
             /\ all_transient' = (all_transient /\ IsTransient(outcome))
             /\ UNCHANGED <<model_name, transcript, speakers, duration_seconds, api_key, title,
                            chunks, per_chunk_summaries, chunk_actions, i, final_result,
                            requests, sent>>
             /\ UNCHANGED notgm

Next ==
    \/ Enter
    \/ \E outcome \in TitleOutcomes, timestamp \in Timestamps :
          TitleAttempt(outcome, timestamp)
    \/ \E outcome \in Outcomes : ChunkAttempt(outcome)
    \/ \E outcome \in Outcomes : FinalAttempt(outcome)
    \/ \E outcome \in Outcomes : SingleAttempt(outcome)

Spec == Init /\ [][Next]_vars

\* a call with the default model: refused, single-shot, or two-stage over
\* max_chunks chunks
InitLive ==
    /\ model_name = DEFAULT_MODEL
    /\ transcript \in {PyNone, PyStr(Rep("a", 4)), BoundaryTranscript, ManyParagraphs}
    /\ speakers = PyNone
    /\ duration_seconds = PyInt(0)
    /\ api_key \in ApiKeys
    /\ pc = "start" /\ attempt = 0 /\ title = PyNone
    /\ chunks = <<>> /\ per_chunk_summaries = <<>> /\ chunk_actions = <<>>
    /\ i = 0 /\ final_result = PyNone /\ result = PyNone
    /\ requests = [title |-> 0, chunk |-> 0, final |-> 0, single |-> 0]
    /\ sent = <<>>
    /\ all_transient = TRUE
    /\ CtIdle /\ CaIdle /\ HelperIdle /\ CallerIdle /\ JobsIdle

\* an attempt of the title request
TitleStep ==
    \E outcome \in TitleOutcomes, timestamp \in Timestamps : TitleAttempt(outcome, timestamp)

\* every backend attempt terminates: the function does not stop between two
\* statements and a request that is outstanding is answered.  The title
\* step is enabled exactly when pc = "title"; its weak fairness is written
\* with that condition in place of ENABLED
SpecLive ==
    /\ InitLive
    /\ [][Next]_vars
    /\ WF_vars(Enter)
    /\ ([]<>(pc /= "title") \/ []<><<TitleStep>>_vars)
    /\ WF_vars(\E outcome \in Outcomes : ChunkAttempt(outcome))
    /\ WF_vars(\E outcome \in Outcomes : FinalAttempt(outcome))
    /\ WF_vars(\E outcome \in Outcomes : SingleAttempt(outcome))

(***************************************************************************)
(* call_openai_api on its own (lines 195-206): one call, every backend     *)
(* invocation of it a step                                                 *)
(***************************************************************************)
InitCall ==
    /\ call_pc = "running"
    /\ backend_calls = <<>>
    /\ call_value = PyNone
    /\ GmIdle /\ CtIdle /\ HelperIdle /\ CallerIdle /\ JobsIdle

\* line 200: the backend is invoked once more and does outcome
BackendAttempt(outcome) ==
    /\ call_pc = "running"
    /\ backend_calls' = Append(backend_calls, outcome)
    /\ LET r == call_openai_api(Len(backend_calls) + 1, outcome)
       IN  /\ call_pc' = CASE r.k = "retry" -> "running"
                           [] r.k = "return" -> "returned"
                           [] OTHER -> "raised"
           /\ call_value' = CASE r.k = "retry" -> call_value
                              [] r.k = "return" -> r.content
                              [] OTHER -> Raise(r.raise)
    /\ UNCHANGED notca

NextCall == \E outcome \in Outcomes : BackendAttempt(outcome)

SpecCall == InitCall /\ [][NextCall]_vars

(***************************************************************************)
(* The helper functions on their own: parse_json_response,                 *)
(* get_token_param_name and format_duration, each called once on an input  *)
(***************************************************************************)
MaxFragments == 3

MaxHours == 100

PARSE_EMPTY == <<>>

PARSE_NO_BRACES == <<"a", "b", "c">>

PARSE_ARRAY == <<"[", "1", "]">>

PARSE_NUMBER == <<"5">>

PARSE_TRUE == <<"t", "r", "u", "e">>

PARSE_CLOSE_OPEN == <<"}", "{">>

PARSE_TWO_OBJECTS == <<"{", "}", " ", "{", "}">>

PARSE_OPEN_ONLY == <<"{">>

PARSE_EXTRA_CLOSE == <<"{", "\"", "a", "\"", ":", "1", "}", "}">>

PARSE_EXTRA_OPEN == <<"{", "{", "\"", "a", "\"", ":", "1", "}">>

PARSE_NESTED == <<"x", "{", "\"", "a", "\"", ":", "{", "\"", "b", "\"",
                  ":", "2", "}", "}", "y", "{">>

\* valid JSON whose span from the first '{' to the last '}' is not
PARSE_ARRAY_OF_OBJECTS == <<"[", "{", "}", ",", "{", "}", "]">>

PARSE_STRING_OF_BRACES == <<"\"", "{", "a", "}", "\"">>

ParseInputs ==
    { PyNone, PyInt(5) } \cup
    { PyStr(text) : text \in ResponseTexts \cup
        { PARSE_EMPTY, PARSE_NO_BRACES, PARSE_ARRAY, PARSE_NUMBER, PARSE_TRUE,
          PARSE_CLOSE_OPEN, PARSE_TWO_OBJECTS, PARSE_OPEN_ONLY, PARSE_EXTRA_CLOSE,
          PARSE_EXTRA_OPEN, PARSE_NESTED, PARSE_ARRAY_OF_OBJECTS,
          PARSE_STRING_OF_BRACES } }

\* pieces of model identifiers
NameFragments ==
    { <<"g", "p", "t", "-", "4">>,
      <<"o">>,
      <<"3">>,
      <<".", "5">>,
      <<"-", "t", "u", "r", "b", "o">>,
      <<"g", "p", "t", "-", "3", ".", "5">> }

\* identifiers made of up to MaxFragments pieces, the empty one included
ModelNames ==
    { PyNone } \cup
    { PyStr(FlattenSeqs(fs)) : fs \in UNION {[1..n -> NameFragments] : n \in 0..MaxFragments} }

\* whole seconds around the minute and hour boundaries, up to MaxHours hours
SecondCounts ==
    { h * 3600 + m * 60 + sec : h \in {0, 1, MaxHours - 1, MaxHours},
                                m \in {0, 1, 59}, sec \in {0, 1, 59} }

DurationInputs ==
    { PyInt(n) : n \in SecondCounts \cup {0 - n : n \in SecondCounts} }
    \cup { PyFloat(n, 500) : n \in {0 - 1, 0, 59, 3599, 3600} }
    \cup { PyFloatNonFinite("nan"), PyFloatNonFinite("inf"), PyFloatNonFinite("-inf"),
           PyBool(TRUE), PyNone, PyStr(<<"6", "0">>), PyList(<<PyInt(1)>>) }

InitHelpers ==
    /\ \/ helper = "parse_json_response" /\ helper_arg \in ParseInputs
       \/ helper = "get_token_param_name" /\ helper_arg \in ModelNames
       \/ helper = "format_duration" /\ helper_arg \in DurationInputs
    /\ helper_pc = "call"
    /\ helper_ret = PyNone
    /\ GmIdle /\ CtIdle /\ CaIdle /\ CallerIdle /\ JobsIdle

\* lines 208-221
ParseCall ==
    /\ helper = "parse_json_response" /\ helper_pc = "call"
    /\ helper_ret' = parse_json_response(helper_arg)
    /\ helper_pc' = "done"
    /\ UNCHANGED <<helper, helper_arg>>
    /\ UNCHANGED nothelper

\* lines 85-90
TokenParamCall ==
    /\ helper = "get_token_param_name" /\ helper_pc = "call"
    /\ helper_ret' = get_token_param_name(helper_arg)
    /\ helper_pc' = "done"
    /\ UNCHANGED <<helper, helper_arg>>
    /\ UNCHANGED nothelper

\* lines 233-246
FormatCall ==
    /\ helper = "format_duration" /\ helper_pc = "call"
    /\ helper_ret' = format_duration(helper_arg)
    /\ helper_pc' = "done"
    /\ UNCHANGED <<helper, helper_arg>>
    /\ UNCHANGED nothelper

NextHelpers == ParseCall \/ TokenParamCall \/ FormatCall

SpecHelpers == InitHelpers /\ [][NextHelpers]_vars


(***************************************************************************)
(* process_file_background (src/backend/app.py) from its call of           *)
(* generate_meeting_minutes at line 627 to the completed job at line 674   *)
(***************************************************************************)
\* transcripts that pass the check of line 614 and fit one request
CallerTranscripts == { PyStr(Rep("a", 10)), PyStr(Rep("a", 5) \o <<" ">> \o Rep("b", 5)) }

AUDIO_DURATION_NA == PyStr(<<"N", "/", "A">>)

\* what lines 567-606 leave in speakers, audio_duration and duration_seconds:
\* a VTT file, an audio file of 65 s, one of an hour, and an audio file
\* whose length could not be read (line 591)
CallerSources ==
    { [speakers |-> PyList(<<>>), audio_duration |-> AUDIO_DURATION_NA,
       duration_seconds |-> PyInt(0)],
      [speakers |-> PyList(<<PyStr(<<"S">>), PyStr(<<"T">>)>>),
       audio_duration |-> PyStr(<<"0", "0", ":", "0", "1", ":", "0", "5">>),
       duration_seconds |-> PyFloat(65, 0)],
      [speakers |-> PyList(<<PyStr(<<"S">>)>>),
       audio_duration |-> PyStr(<<"0", "1", ":", "0", "0", ":", "0", "0">>),
       duration_seconds |-> PyFloat(3600, 0)],
      [speakers |-> PyList(<<PyStr(<<"S">>)>>),
       audio_duration |-> PyStr(<<"0", "1", ":", "0", "0", ":", "0", "0">>),
       duration_seconds |-> PyInt(0)] }

\* base_filename of lines 563-564
FileTitles == { PyStr(<<"T">>), PyStr(<<"T", "e", "a", "m", " ", "S", "y", "n", "c">>) }

TEXT_NULL_FIELDS ==
    Object(<<Member(KEY_SUMMARY, <<"n", "u", "l", "l">>),
             Member(KEY_ACTION_POINTS, <<"n", "u", "l", "l">>)>>)

CallerOutcomes == Outcomes \cup {[content |-> PyStr(TEXT_NULL_FIELDS)]}

PDF_PATH == PyStr(<<"m", ".", "p", "d", "f">>)

TXT_PATH == PyStr(<<"m", ".", "t", "x", "t">>)

\* what generate_meeting_minutes returns for a transcript that fits one
\* request when the last attempt of the summary request ends with outcome
\* (meeting_minutes.py lines 342-365)
ReturnOfSingle(title_, outcome, transcript_, speakers_, duration_seconds_) ==
    LET r == call_openai_api(MAX_RETRIES, outcome)
        out == IF r.k = "return"
               THEN AssembleSingle(parse_json_response(r.content), title_,
                                   transcript_, speakers_, duration_seconds_)
               ELSE Raise(r.raise)
    IN  IF IsRaise(out)
        THEN TopLevelExcept(out.raise, transcript_, speakers_, duration_seconds_).result
        ELSE out

\* app.py lines 727-741
ensure_complete_minutes(m) ==
    LET required_fields ==
            [title |-> PyStr(<<>>),
             duration |-> PyStr(<<"0", "0", ":", "0", "0">>),
             summary |-> PyStr(<<>>),
             action_points |-> PyList(<<>>),
             transcription |-> PyStr(<<>>),
             speakers |-> PyList(<<>>)]
    IN  [field \in DOMAIN m \cup DOMAIN required_fields |->
            IF field \in DOMAIN required_fields
               /\ (field \notin DOMAIN m \/ m[field] = PyNone)
            THEN required_fields[field]
            ELSE m[field]]

\* minutes[key] = value
SetItem(m, key, value) ==
    [field \in DOMAIN m \cup {key} |-> IF field = key THEN value ELSE m[field]]

InitCaller ==
    /\ transcript \in CallerTranscripts
    /\ \E source \in CallerSources :
          /\ speakers = source.speakers
          /\ audio_duration = source.audio_duration
          /\ duration_seconds = source.duration_seconds
    /\ meeting_title \in FileTitles
    /\ caller_pc = "call"
    /\ minutes = PyNone /\ pdf_path = PyNone
    /\ api_key = PyNone /\ pc = "idle" /\ attempt = 0 /\ title = PyNone
    /\ model_name = PyNone
    /\ chunks = <<>> /\ per_chunk_summaries = <<>> /\ chunk_actions = <<>>
    /\ i = 0 /\ final_result = PyNone /\ result = PyNone
    /\ requests = [title |-> 0, chunk |-> 0, final |-> 0, single |-> 0]
    /\ sent = <<>>
    /\ all_transient = TRUE
    /\ CtIdle /\ CaIdle /\ HelperIdle /\ JobsIdle

CallerFrame ==
    /\ UNCHANGED <<transcript, speakers, duration_seconds, api_key, pc, attempt, title,
                   chunks, per_chunk_summaries, chunk_actions, i, final_result,
                   requests, all_transient, model_name, sent>>
    /\ UNCHANGED <<meeting_title, audio_duration>>
    /\ UNCHANGED notcaller

\* line 627: generate_meeting_minutes returns; result keeps the value it
\* returned, minutes is the caller's name for the returned object
CallerGenerate(title_content, timestamp, outcome) ==
    /\ caller_pc = "call"
    /\ \E record \in {ReturnOfSingle(IF title_content = PyNone
                                       THEN PyStr(MeetingTitle(timestamp))
                                       ELSE TitleFrom(title_content),
                                      outcome, transcript, speakers, duration_seconds)} :
          /\ result' = record
          /\ minutes' = record
    /\ caller_pc' = "returned"
    /\ UNCHANGED pdf_path
    /\ CallerFrame

\* lines 628-631
CallerOverwrite ==
    /\ caller_pc = "returned"
    /\ minutes' = SetItem(SetItem(SetItem(SetItem(minutes, "title", meeting_title),
                                          "duration", audio_duration),
                                  "speakers", speakers),
                          "transcription", transcript)
    /\ caller_pc' = "overwritten"
    /\ UNCHANGED <<result, pdf_path>>
    /\ CallerFrame

\* lines 650-670: the PDF is written, or the text file when that fails
CallerPdf(path) ==
    /\ caller_pc = "overwritten"
    /\ pdf_path' = path
    /\ caller_pc' = "pdf"
    /\ UNCHANGED <<result, minutes>>
    /\ CallerFrame

\* lines 672-674
CallerComplete ==
    /\ caller_pc = "pdf"
    /\ minutes' = SetItem(ensure_complete_minutes(minutes), "pdf_path", pdf_path)
    /\ caller_pc' = "completed"
    /\ UNCHANGED <<result, pdf_path>>
    /\ CallerFrame

NextCaller ==
    \/ \E title_content \in {PyNone, PyStr(TEXT_QUOTED_TITLE)}, timestamp \in Timestamps,
          outcome \in CallerOutcomes :
          CallerGenerate(title_content, timestamp, outcome)
    \/ CallerOverwrite
    \/ \E path \in {PDF_PATH, TXT_PATH} : CallerPdf(path)
    \/ CallerComplete

SpecCaller == InitCaller /\ [][NextCaller]_vars

(***************************************************************************)
(* Job bookkeeping: upload_file starts one process_file_background thread  *)
(* per upload; the threads share the job_results, pdf_output_files and     *)
(* uploads directories through update_job_status and the cleanup it runs   *)
(***************************************************************************)
\* job ids are uuid4 strings: no id occurs in a file name of another job
Jobs == {"j1", "j2"}

\* largest clock reading followed
MaxClock == 3

\* job_manager.py:80-81: what run_cleanup is called with
COMPLETED_JOB_RETENTION_HOURS == 0

INTERRUPTED_JOB_RETENTION_MINUTES == 0

\* job_manager.py:76
TERMINAL_STATUSES == {"completed", "error"}

\* a path at which there is no file
NoFile == [exists |-> FALSE]

\* job_manager.py:51-72: the object written; minutes_ is "none" when the
\* key is absent and else the pdf_path entry of the minutes ("pdf", "txt")
ResultData(status, timestamp, minutes_) ==
    [exists |-> TRUE, status |-> status, timestamp |-> timestamp, minutes |-> minutes_]

\* cleanup.py:118-133: the retention of a job file by its status; both are
\* timedeltas of zero length
RetentionPeriod(status) ==
    IF status = "completed" THEN COMPLETED_JOB_RETENTION_HOURS
    ELSE INTERRUPTED_JOB_RETENTION_MINUTES

\* cleanup.py:41-98, 113-137: the job files the scan at clock reading at
\* marks for deletion
JobFilesToDelete(files, at) ==
    {k \in Jobs : files[k].exists /\ at - files[k].timestamp > RetentionPeriod(files[k].status)}

\* job_manager.py:87-130
get_job_status(files, job_id) ==
    IF files[job_id].exists
    THEN IF files[job_id].minutes = "none"
         THEN [status |-> files[job_id].status, job_id |-> job_id,
               timestamp |-> files[job_id].timestamp]
         ELSE [status |-> files[job_id].status, job_id |-> job_id,
               timestamp |-> files[job_id].timestamp,
               minutes |-> [pdf_path |-> files[job_id].minutes]]
    ELSE [status |-> "processing", job_id |-> job_id,
          message |-> "Job is still processing or does not exist"]

\* job_manager.py:30-85 with cleanup.py:100-206: the file is written with
\* the clock reading of line 54; after a terminal status the scan reads the
\* clock again, d later, and every job file older than its retention goes,
\* with the PDF its minutes name, the job's text file and the job's upload
update_job_status(job_id, status, minutes_, d) ==
    LET written == [records EXCEPT ![job_id] = ResultData(status, now, minutes_)]
        doomed == IF status \in TERMINAL_STATUSES
                  THEN JobFilesToDelete(written, now + d)
                  ELSE {}
    IN  /\ now + d <= MaxClock
        /\ now' = now + d
        /\ records' = [k \in Jobs |-> IF k \in doomed THEN NoFile ELSE written[k]]
        /\ pdf_files' = [k \in Jobs |->
                            pdf_files[k] /\ ~(k \in doomed /\ written[k].minutes = "pdf")]
        /\ txt_files' = [k \in Jobs |-> txt_files[k] /\ k \notin doomed]
        /\ uploads' = [k \in Jobs |-> uploads[k] /\ k \notin doomed]
        /\ updates' = [updates EXCEPT ![job_id] = Append(@, status)]

\* the server is up and no file was uploaded
InitJobs ==
    /\ job_pc = [j \in Jobs |-> "none"]
    /\ job_minutes = [j \in Jobs |-> FALSE]
    /\ job_doc = [j \in Jobs |-> "none"]
    /\ records = [j \in Jobs |-> NoFile]
    /\ uploads = [j \in Jobs |-> FALSE]
    /\ pdf_files = [j \in Jobs |-> FALSE]
    /\ txt_files = [j \in Jobs |-> FALSE]
    /\ now = 0
    /\ updates = [j \in Jobs |-> <<>>]
    /\ GmIdle /\ CtIdle /\ CaIdle /\ HelperIdle /\ CallerIdle

\* app.py:313-325: the file is saved under a name that starts with the job
\* id and the thread is started
upload_file(j) ==
    /\ job_pc[j] = "none"
    /\ job_pc' = [job_pc EXCEPT ![j] = "check"]
    /\ uploads' = [uploads EXCEPT ![j] = TRUE]
    /\ UNCHANGED <<job_minutes, job_doc, records, pdf_files, txt_files, now, updates>>
    /\ UNCHANGED notjobs

\* app.py:695-701: the outer handler records the error
OuterExcept(j, d) ==
    /\ job_pc' = [job_pc EXCEPT ![j] = "finally"]
    /\ update_job_status(j, "error", "none", d)

\* app.py:528-558: without the uploaded file FileNotFoundError reaches the
\* outer handler
FileCheck(j, d) ==
    /\ job_pc[j] = "check"
    /\ IF uploads[j]
       THEN /\ job_pc' = [job_pc EXCEPT ![j] = "start"]
            /\ UNCHANGED <<records, uploads, pdf_files, txt_files, now, updates>>
       ELSE OuterExcept(j, d)
    /\ UNCHANGED <<job_minutes, job_doc>>
    /\ UNCHANGED notjobs

\* app.py:560
Started(j) ==
    /\ job_pc[j] = "start"
    /\ job_pc' = [job_pc EXCEPT ![j] = "process"]
    /\ update_job_status(j, "started", "none", 0)
    /\ UNCHANGED <<job_minutes, job_doc>>
    /\ UNCHANGED notjobs

\* mutant: the inner handler does not return
Process_noreturn(j, outcome, d) ==
    /\ job_pc[j] = "process"
    /\ IF outcome = "ok"
       THEN /\ uploads[j]
            /\ job_pc' = [job_pc EXCEPT ![j] = "document"]
            /\ job_minutes' = [job_minutes EXCEPT ![j] = TRUE]
            /\ UNCHANGED <<records, uploads, pdf_files, txt_files, now, updates>>
       ELSE /\ job_pc' = [job_pc EXCEPT ![j] = "document"]
            /\ update_job_status(j, "error", "none", d)
            /\ UNCHANGED job_minutes
    /\ UNCHANGED job_doc
    /\ UNCHANGED notjobs

\* app.py:574-644: the file is read and the minutes are generated, or the
\* inner handler records the error and returns
Process(j, outcome, d) ==
    /\ job_pc[j] = "process"
    /\ IF outcome = "ok"
       THEN /\ uploads[j]
            /\ job_pc' = [job_pc EXCEPT ![j] = "document"]
            /\ job_minutes' = [job_minutes EXCEPT ![j] = TRUE]
            /\ UNCHANGED <<records, uploads, pdf_files, txt_files, now, updates>>
       ELSE /\ job_pc' = [job_pc EXCEPT ![j] = "finally"]
            /\ update_job_status(j, "error", "none", d)
            /\ UNCHANGED job_minutes
    /\ UNCHANGED job_doc
    /\ UNCHANGED notjobs

\* app.py:646-670: the PDF, the text file when generate_pdf raised, or an
\* exception of the text fallback, which reaches the outer handler
Document(j, outcome, d) ==
    /\ job_pc[j] = "document"
    /\ IF outcome = "raise"
       THEN /\ OuterExcept(j, d)
            /\ UNCHANGED job_doc
       ELSE /\ job_pc' = [job_pc EXCEPT ![j] = "complete"]
            /\ job_doc' = [job_doc EXCEPT ![j] = outcome]
            /\ pdf_files' = [pdf_files EXCEPT ![j] = @ \/ outcome = "pdf"]
            /\ txt_files' = [txt_files EXCEPT ![j] = @ \/ outcome = "txt"]
            /\ UNCHANGED <<records, uploads, now, updates>>
    /\ UNCHANGED job_minutes
    /\ UNCHANGED notjobs

\* app.py:672-674
Complete(j, d) ==
    /\ job_pc[j] = "complete"
    /\ job_pc' = [job_pc EXCEPT ![j] = "finally"]
    /\ update_job_status(j, "completed", job_doc[j], d)
    /\ UNCHANGED <<job_minutes, job_doc>>
    /\ UNCHANGED notjobs

\* app.py:702-704: cleanup_file
Finally(j) ==
    /\ job_pc[j] = "finally"
    /\ job_pc' = [job_pc EXCEPT ![j] = "returned"]
    /\ uploads' = [uploads EXCEPT ![j] = FALSE]
    /\ UNCHANGED <<job_minutes, job_doc, records, pdf_files, txt_files, now, updates>>
    /\ UNCHANGED notjobs

\* time passes between two statements
Tick ==
    /\ now < MaxClock
    /\ now' = now + 1
    /\ UNCHANGED <<job_pc, job_minutes, job_doc, records, uploads, pdf_files, txt_files,
                   updates>>
    /\ UNCHANGED notjobs

NextJobs ==
    \/ \E j \in Jobs : upload_file(j)
    \/ \E j \in Jobs, d \in {0, 1} : FileCheck(j, d)
    \/ \E j \in Jobs : Started(j)
    \/ \E j \in Jobs, outcome \in {"ok", "fail"}, d \in {0, 1} : Process(j, outcome, d)
    \/ \E j \in Jobs, outcome \in {"pdf", "txt", "raise"}, d \in {0, 1} : Document(j, outcome, d)
    \/ \E j \in Jobs, d \in {0, 1} : Complete(j, d)
    \/ \E j \in Jobs : Finally(j)
    \/ Tick

SpecJobs == InitJobs /\ [][NextJobs]_vars

(***************************************************************************)
(* Properties of generate_meeting_minutes                                  *)
(***************************************************************************)
SixKeys == {"title", "duration", "summary", "action_points", "transcription",
            "speakers"}

\* the record section 3 of the specification calls the fallback record
FallbackRecord ==
    [title |-> PyStr(<<>>),
     duration |-> format_duration(duration_seconds),
     summary |-> PyStr(<<>>),
     action_points |-> PyList(<<>>),
     transcription |-> transcript,
     speakers |-> IF speakers = PyNone \/ speakers = PyList(<<>>) THEN PyList(<<>>)
                  ELSE speakers]

\* the transcript is estimated above safe_chunk_size
TwoStagePath == transcript.t = "str" /\ estimate_tokens(transcript.s) > safe_chunk_size

\* the guard let the call through: the title request was issued
Entered == requests.title > 0

\* C1: whatever the transcript and whatever the backend does, the call
\* returns normally with a record that has all six keys
C1_AlwaysReturnsRecord ==
    /\ pc # "raised"
    /\ pc = "done" => DOMAIN result = SixKeys

C1_Witness ==
    /\ pc = "done"
    /\ IsRaise(final_result)
    /\ DOMAIN result = SixKeys

\* C2: in every returned record title, duration, summary and transcription
\* are strings and action_points and speakers are lists
C2_FieldTypes ==
    pc = "done" =>
        /\ result.title.t = "str"
        /\ result.duration.t = "str"
        /\ result.summary.t = "str"
        /\ result.transcription.t = "str"
        /\ result.action_points.t = "list"
        /\ result.speakers.t = "list"

\* C3: an empty or absent transcript, or a missing credential, gives the
\* fallback record without any completion request; ("", [], 0) gives
\* summary "", action_points [] and duration "00:00"
C3_GuardFallback ==
    /\ ( /\ pc = "done"
         /\ transcript \in {PyNone, PyStr(<<>>)} \/ api_key \in {PyNone, PyStr(<<>>)} )
       => /\ result = FallbackRecord
          /\ requests = [title |-> 0, chunk |-> 0, final |-> 0, single |-> 0]
    /\ ( /\ pc = "done"
         /\ transcript = PyStr(<<>>)
         /\ speakers = PyList(<<>>)
         /\ duration_seconds = PyInt(0) )
       => /\ result.summary = PyStr(<<>>)
          /\ result.action_points = PyList(<<>>)
          /\ result.duration = PyStr(<<"0", "0", ":", "0", "0">>)

C3_Witness ==
    /\ pc = "done"
    /\ transcript.t = "str" /\ transcript.s # <<>>
    /\ api_key = PyNone
    /\ speakers.t = "list" /\ speakers.l # <<>>
    /\ result.speakers = speakers

\* C4 as claimed: when every completion call raises a transient error the
\* summary is the disclaimer on the two-stage path and "" on the single-shot
\* path
C4_AsClaimed ==
    (pc = "done" /\ Entered /\ all_transient) =>
        /\ DOMAIN result = SixKeys
        /\ result.summary = IF TwoStagePath THEN PyStr(DISCLAIMER) ELSE PyStr(<<>>)

\* C4 (amended): no call is attempted more than 3 times, and when every
\* completion call raises a transient error the call still returns a
\* complete record whose summary is "" on both paths
C4_RetryThenFallback ==
    /\ attempt <= MAX_RETRIES
    /\ pc # "raised"
    /\ (pc = "done" /\ Entered /\ all_transient) =>
          /\ DOMAIN result = SixKeys
          /\ result.summary = PyStr(<<>>)

C4_Witness ==
    /\ pc = "done"
    /\ all_transient
    /\ TwoStagePath
    /\ requests.chunk = 3
    /\ result.summary = PyStr(<<>>)

\* C5: on the two-stage path, when no chunk gave a non-empty summary there
\* is no consolidation request and the result is the full fallback record
C5_NoSummaryFallback ==
    /\ requests.final > 0 => per_chunk_summaries # <<>>
    /\ (pc = "done" /\ Entered /\ TwoStagePath /\ per_chunk_summaries = <<>>) =>
          /\ requests.final = 0
          /\ result = FallbackRecord

C5_Witness ==
    /\ pc = "done"
    /\ TwoStagePath
    /\ requests.chunk = 3
    /\ per_chunk_summaries = <<>>
    /\ chunk_actions # <<>>
    /\ result.action_points = PyList(<<>>)

\* the elements of xs without those that occurred earlier in xs, in order
FirstOccurrences(xs) ==
    LET keep == {k \in 1..Len(xs) : \A j \in 1..(k - 1) : xs[j] # xs[k]}
    IN  [n \in 1..Cardinality(keep) |->
            xs[CHOOSE k \in keep : Cardinality({j \in keep : j <= k}) = n]]

\* a record was assembled after the consolidation request (the fallback
\* record has summary "", an assembled one never has)
AssembledAfterConsolidation ==
    pc = "done" /\ requests.final > 0 /\ result.summary # PyStr(<<>>)

\* C6: the action points of a record assembled after consolidation are the
\* collected per-chunk action points without later duplicates, or the
\* consolidation result's when none were collected; the same answer
\* {summary X, action points A, B} to every call gives exactly X and A, B
C6_ActionPointsMerged ==
    AssembledAfterConsolidation =>
        /\ result.action_points =
              IF chunk_actions # <<>> THEN PyList(FirstOccurrences(chunk_actions))
              ELSE DictGet(final_result, KEY_ACTION_POINTS, PyList(<<>>))
        /\ ( /\ per_chunk_summaries = <<<<"X">>, <<"X">>, <<"X">>>>
             /\ chunk_actions = <<PyStr(<<"A">>), PyStr(<<"B">>), PyStr(<<"A">>),
                                  PyStr(<<"B">>), PyStr(<<"A">>), PyStr(<<"B">>)>>
             /\ final_result = parse_json_response(PyStr(TEXT_FULL_X)) )
           => /\ result.summary = PyStr(<<"X">>)
              /\ result.action_points = PyList(<<PyStr(<<"A">>), PyStr(<<"B">>)>>)

C6_Witness ==
    /\ AssembledAfterConsolidation
    /\ chunk_actions = <<PyStr(<<"A">>), PyStr(<<"B">>), PyStr(<<"A">>),
                         PyStr(<<"B">>), PyStr(<<"A">>), PyStr(<<"B">>)>>
    /\ result.action_points = PyList(<<PyStr(<<"A">>), PyStr(<<"B">>)>>)

\* the consolidation call returned an object whose summary is a string (or
\* is missing) and every collected action point can be a dict key
ConsolidationUsable ==
    /\ ~IsRaise(final_result)
    /\ final_result.t = "dict"
    /\ DictGet(final_result, KEY_SUMMARY, PyStr(<<>>)).t = "str"
    /\ \A k \in 1..Len(chunk_actions) : chunk_actions[k].t \notin {"list", "dict"}

\* the summary of the consolidation result with blanks stripped, "" if none
ConsolidationSummary ==
    IF ConsolidationUsable
    THEN Strip(DictGet(final_result, KEY_SUMMARY, PyStr(<<>>)).s)
    ELSE <<>>

\* C7 as claimed: once a chunk gave a non-empty summary the returned summary
\* is never empty, whatever the consolidation request does
C7_AsClaimed ==
    (pc = "done" /\ TwoStagePath /\ per_chunk_summaries # <<>>) =>
        /\ result.summary # PyStr(<<>>)
        /\ result.summary \in {PyStr(DISCLAIMER), PyStr(ConsolidationSummary)}

\* C7 (amended): once a chunk gave a non-empty summary, a consolidation call
\* that returns a usable object gives its non-empty summary or else the
\* disclaimer, never ""; a consolidation call that raises, or returns JSON
\* that is no object or has a summary that is no string, gives the full
\* fallback record, whose summary is ""
C7_SummaryOrDisclaimer ==
    (pc = "done" /\ TwoStagePath /\ per_chunk_summaries # <<>>) =>
        IF ConsolidationUsable
        THEN /\ result.summary # PyStr(<<>>)
             /\ result.summary = IF ConsolidationSummary # <<>>
                                 THEN PyStr(ConsolidationSummary)
                                 ELSE PyStr(DISCLAIMER)
        ELSE result = FallbackRecord

C7_Witness ==
    /\ pc = "done"
    /\ TwoStagePath
    /\ per_chunk_summaries # <<>>
    /\ ConsolidationUsable
    /\ result.summary = PyStr(DISCLAIMER)

\* C16: on every path the returned transcription is the input transcript,
\* speakers is the input list ([] when it is absent or empty) and duration
\* is format_duration(duration_seconds), whatever the backend answered
C16_InputsPassedThrough ==
    pc = "done" =>
        /\ result.transcription = transcript
        /\ result.speakers = IF speakers \in {PyNone, PyList(<<>>)} THEN PyList(<<>>)
                             ELSE speakers
        /\ result.duration = format_duration(duration_seconds)

C16_Witness ==
    /\ pc = "done"
    /\ requests.single = 1
    /\ result.summary = PyStr(<<"X">>)
    /\ speakers = PyNone
    /\ result.speakers = PyList(<<>>)
    /\ duration_seconds = PyInt(3600)
    /\ result.duration = PyStr(<<"0", "1", ":", "0", "0", ":", "0", "0">>)

\* json.loads fails on what parse_json_response takes from the text
Unparseable(content) ==
    IsRaise(IF JsonSpan(content.s) # <<>> THEN json_loads(JsonSpan(content.s))
            ELSE json_loads(content.s))

\* this attempt ends the chunk's request without a usable response: the
\* call raises (retries used up, or an error that is not retried) or
\* returns text that cannot be parsed
ChunkRequestFails(outcome) ==
    \/ call_openai_api(attempt, outcome).k = "raise"
    \/ /\ call_openai_api(attempt, outcome).k = "return"
       /\ Unparseable(call_openai_api(attempt, outcome).content)

\* the step keeps both accumulators and moves on: to the next chunk's
\* request, or past the last chunk to the consolidation request or, with
\* no summary collected, to the fallback record
KeepsAndMovesOn ==
    /\ per_chunk_summaries' = per_chunk_summaries
    /\ chunk_actions' = chunk_actions
    /\ IF i < Len(chunks)
       THEN pc' = "chunk" /\ i' = i + 1 /\ attempt' = 1
            /\ requests'.chunk = requests.chunk + 1
       ELSE /\ requests'.chunk = requests.chunk
            /\ \/ pc' = "final" /\ per_chunk_summaries # <<>>
               \/ pc' = "done" /\ per_chunk_summaries = <<>>

\* every step that ends a chunk's request in failure keeps and moves on
C21_FailedChunkStep ==
    pc = "chunk" =>
        \/ KeepsAndMovesOn
        \/ \A outcome \in Outcomes : ChunkRequestFails(outcome) => ~ChunkAttempt(outcome)

C21_EachChunkOnce ==
    /\ pc = "chunk" => i \in 1..Len(chunks) /\ requests.chunk = i
    /\ (pc = "final" \/ (pc = "done" /\ Entered /\ TwoStagePath)) =>
          requests.chunk = Len(chunks)

\* C21: on the two-stage path a chunk whose request raises or whose output
\* cannot be parsed adds nothing to the collected summaries and action
\* points and leaves what the other chunks gave untouched; the loop goes on
\* to the next chunk, and every chunk is requested exactly once
C21_ChunkFailureIsolated == []C21_EachChunkOnce /\ [][C21_FailedChunkStep]_vars

\* the first chunk's request raised after three transient errors, the
\* second chunk's request is issued
C21_Witness ==
    /\ pc = "chunk" /\ i = 2 /\ attempt = 1
    /\ all_transient
    /\ requests.chunk = 2
    /\ per_chunk_summaries = <<>>

\* what a request asks and on what text
PromptOf(request) == request[K_MESSAGES].system.prompt

PositionOf(request) == request[K_MESSAGES].system.chunk_position

UserTextOf(request) == request[K_MESSAGES].user

\* the requests built so far: the title request, the chunks' requests in
\* chunk order with their position tags, then at most one consolidation
\* request, built after the last chunk's request is over, over the
\* collected summaries joined by single spaces
C22_RequestLayout ==
    /\ Len(sent) = requests.title + requests.chunk + requests.final + requests.single
    /\ sent # <<>> => PromptOf(sent[1]) = "title"
    /\ \A k \in 2..Len(sent) : PromptOf(sent[k]) # "title"
    /\ pc = "title" => Len(sent) = 1
    /\ pc = "chunk" => Len(sent) = i + 1
    /\ requests.chunk > 0 =>
          \A k \in 1..requests.chunk :
              /\ PromptOf(sent[k + 1]) = "chunk"
              /\ UserTextOf(sent[k + 1]) = chunks[k]
              /\ PositionOf(sent[k + 1]) =
                    (IF k = 1 THEN "beginning"
                     ELSE IF k = Len(chunks) /\ Len(chunks) >= 2 THEN "end"
                     ELSE "middle")
    /\ \A k \in 1..Len(sent) :
          PromptOf(sent[k]) = "final" =>
              /\ k = Len(sent) /\ k = Len(chunks) + 2
              /\ requests.chunk = Len(chunks) /\ requests.final = 1
              /\ pc \in {"final", "done"}
              /\ per_chunk_summaries # <<>>
              /\ \A n \in 1..Len(per_chunk_summaries) : per_chunk_summaries[n] # <<>>
              /\ UserTextOf(sent[k]) = Join(per_chunk_summaries, <<" ">>)
    /\ (pc = "final" \/ (pc = "done" /\ requests.chunk > 0 /\ per_chunk_summaries # <<>>))
          => PromptOf(sent[Len(sent)]) = "final"

\* requests are only added at the end, one at a time, and a chunk's
\* summary is only added at the end of the collected ones
C22_InOrder ==
    /\ sent' = sent \/ (Len(sent') = Len(sent) + 1 /\ SubSeq(sent', 1, Len(sent)) = sent)
    /\ \/ per_chunk_summaries' = per_chunk_summaries
       \/ /\ pc = "chunk"
          /\ Len(per_chunk_summaries') = Len(per_chunk_summaries) + 1
          /\ SubSeq(per_chunk_summaries', 1, Len(per_chunk_summaries)) = per_chunk_summaries

\* C22: the requests of one invocation are issued one after another: the
\* title request, one request per chunk in chunk order tagged "beginning",
\* "middle" or "end", then at most one consolidation request, issued only
\* after all chunk requests and only with a non-empty chunk summary, over
\* the non-empty chunk summaries joined by single spaces in chunk order
C22_RequestOrder == []C22_RequestLayout /\ [][C22_InOrder]_vars

C22_Witness ==
    /\ pc = "done"
    /\ Len(sent) = 5
    /\ PositionOf(sent[2]) = "beginning" /\ PositionOf(sent[3]) = "middle"
    /\ PositionOf(sent[4]) = "end"
    /\ per_chunk_summaries = << <<"X">>, <<"Y">> >>
    /\ UserTextOf(sent[5]) = <<"X", " ", "Y">>

\* min(MODEL_CONTEXT_LIMIT - MAX_OUTPUT_TOKENS, 3000)
SingleShotLimit ==
    IF MODEL_CONTEXT_LIMIT - MAX_OUTPUT_TOKENS <= SAFE_CHUNK_CEILING
    THEN MODEL_CONTEXT_LIMIT - MAX_OUTPUT_TOKENS
    ELSE SAFE_CHUNK_CEILING

\* once the title step is over: the single-shot request is issued exactly
\* when the transcript is estimated within the limit, it is the only
\* summary request and carries the full transcript
C23_PathChoice ==
    /\ requests.single <= 1
    /\ (Entered /\ pc # "title") =>
          /\ requests.single = 1 <=> estimate_tokens(transcript.s) <= SingleShotLimit
          /\ requests.single = 1 =>
                /\ requests.chunk = 0 /\ requests.final = 0
                /\ Len(sent) = 2
                /\ PromptOf(sent[2]) = "single"
                /\ UserTextOf(sent[2]) = transcript.s
          /\ estimate_tokens(transcript.s) > SingleShotLimit =>
                /\ requests.chunk = 0 <=> chunks = <<>>
                /\ requests.chunk > 0 => PromptOf(sent[2]) = "chunk"

\* record is what the single-shot path returns for the parsed response res
SingleShotRecord(res, unparseable, record, title_) ==
    /\ unparseable =>
          /\ record.title = title_
          /\ record.summary = PyStr(<<>>)
          /\ record.action_points = PyList(<<>>)
    /\ res.t = "dict" =>
          /\ record.title = title_
          /\ record.summary = IF KEY_SUMMARY \in DOMAIN res.d THEN res.d[KEY_SUMMARY]
                              ELSE PyStr(<<>>)
          /\ record.action_points =
                IF KEY_ACTION_POINTS \in DOMAIN res.d THEN res.d[KEY_ACTION_POINTS]
                ELSE PyList(<<>>)

\* the step in which the single-shot request returns text
C23_SingleShotStep ==
    \A outcome \in Outcomes :
        (/\ pc = "single"
         /\ call_openai_api(attempt, outcome).k = "return"
         /\ SingleAttempt(outcome)) =>
            /\ pc' = "done"
            /\ SingleShotRecord(parse_json_response(call_openai_api(attempt, outcome).content),
                                Unparseable(call_openai_api(attempt, outcome).content),
                                result', title)

\* C23: the single-shot path is taken exactly when the transcript is
\* estimated at no more than min(MODEL_CONTEXT_LIMIT - MAX_OUTPUT_TOKENS,
\* 3000), the two-stage path otherwise; the single-shot path issues one
\* summary request over the full transcript, a field missing from the
\* parsed result defaults to "" or [], and an unparseable response gives
\* empty summary and action_points under the title of the title step
C23_SingleShotPath == []C23_PathChoice /\ [][C23_SingleShotStep]_vars

\* a transcript exactly at the limit, answered by an object without fields
C23_Witness ==
    /\ pc = "done"
    /\ requests.single = 1
    /\ estimate_tokens(transcript.s) = SingleShotLimit
    /\ title = PyStr(<<"T">>)
    /\ result.title = title
    /\ result.summary = PyStr(<<>>)
    /\ result.action_points = PyList(<<>>)

\* the title request carries the first 1000 characters of the transcript
\* and no more; a record with a summary carries the title of the title step
C24_TitleSampleAndUse ==
    /\ sent # <<>> =>
          /\ Len(UserTextOf(sent[1])) =
                (IF Len(transcript.s) < 1000 THEN Len(transcript.s) ELSE 1000)
          /\ \A k \in 1..Len(UserTextOf(sent[1])) :
                UserTextOf(sent[1])[k] = transcript.s[k]
    /\ (Entered /\ pc # "title") => title.t = "str"
    /\ (pc = "done" /\ Entered /\ result.summary # PyStr(<<>>)) => result.title = title

\* the step in which the title request fails for good sets the timestamp
\* title and goes on to the sizing decision and the first summary request
\* (with an oversized transcript of blank lines only there is no chunk to
\* request); later steps leave the title alone
C24_TitleStep ==
    /\ \A outcome \in TitleOutcomes, timestamp \in Timestamps :
          (/\ pc = "title"
           /\ call_openai_api(attempt, outcome).k = "raise"
           /\ TitleAttempt(outcome, timestamp)) =>
              /\ title' = PyStr(<<"M", "e", "e", "t", "i", "n", "g", " ">> \o timestamp)
              /\ IF estimate_tokens(transcript.s) <= SingleShotLimit
                 THEN pc' = "single" /\ requests'.single = 1
                 ELSE \/ pc' = "chunk" /\ requests'.chunk = 1
                      \/ pc' = "done" /\ chunks' = <<>>
    /\ pc \notin {"start", "title"} => title' = title

\* C24: the title request carries only the first 1000 characters of the
\* transcript; when it fails, after its retries, the title is "Meeting
\* <timestamp>", the sizing decision and the summary requests still
\* follow, and the assembled record has the title of the title step
C24_TitleFailureNonFatal == []C24_TitleSampleAndUse /\ [][C24_TitleStep]_vars

\* the title request failed on a transcript longer than the sample, the
\* record assembled after the consolidation has the timestamp title
C24_Witness ==
    /\ pc = "done"
    /\ transcript = SampledTranscript
    /\ Len(UserTextOf(sent[1])) = 1000
    /\ \E timestamp \in Timestamps : title = PyStr(MeetingTitle(timestamp))
    /\ requests.final = 1
    /\ result.summary = PyStr(<<"X">>)
    /\ result.title = title

\* word occurs in text
Occurs(word, text) ==
    \E lo \in 1..Len(text) : \E hi \in lo..Len(text) : SubSeq(text, lo, hi) = word

\* the token-limit keys a request may carry
TokenLimitKeys ==
    { <<"m", "a", "x", "_", "t", "o", "k", "e", "n", "s">>,
      <<"m", "a", "x", "_", "c", "o", "m", "p", "l", "e", "t", "i", "o", "n", "_",
        "t", "o", "k", "e", "n", "s">> }

\* C26: every request built carries exactly one token-limit parameter,
\* max_completion_tokens for a model name containing "o3", "gpt-4o" or
\* "gpt-4.5" and max_tokens otherwise, and a temperature exactly when the
\* model name, lower-cased, does not contain "o3-mini"; all requests of an
\* invocation carry the same parameters
C26_RequestParams ==
    \A k \in 1..Len(sent) :
        /\ TokenLimitKeys \cap DOMAIN sent[k] =
              {IF \/ Occurs(<<"o", "3">>, model_name.s)
                  \/ Occurs(<<"g", "p", "t", "-", "4", "o">>, model_name.s)
                  \/ Occurs(<<"g", "p", "t", "-", "4", ".", "5">>, model_name.s)
               THEN <<"m", "a", "x", "_", "c", "o", "m", "p", "l", "e", "t", "i", "o",
                      "n", "_", "t", "o", "k", "e", "n", "s">>
               ELSE <<"m", "a", "x", "_", "t", "o", "k", "e", "n", "s">>}
        /\ K_TEMPERATURE \in DOMAIN sent[k]
              <=> ~Occurs(<<"o", "3", "-", "m", "i", "n", "i">>, Lower(model_name.s))
        /\ DOMAIN sent[k] = DOMAIN sent[1]
        /\ sent[k][K_MODEL] = model_name

\* a model named in upper case: title, two chunk and consolidation
\* requests, all with max_tokens and without temperature
C26_Witness ==
    /\ pc = "done"
    /\ model_name = PyStr(<<"O", "3", "-", "M", "I", "N", "I">>)
    /\ Len(sent) = 4
    /\ PromptOf(sent[4]) = "final"
    /\ DOMAIN sent[4] = {K_MODEL, K_MESSAGES, <<"m", "a", "x", "_", "t", "o", "k", "e", "n", "s">>}

\* one title request, at most max_chunks chunk requests, one consolidation
\* or one single-shot request, every one of them recorded, and no request
\* in more than MAX_RETRIES attempts
C27_Bounds ==
    /\ attempt <= MAX_RETRIES
    /\ requests.title <= 1
    /\ requests.chunk <= max_chunks
    /\ requests.final <= 1
    /\ requests.single <= 1
    /\ Len(sent) = requests.title + requests.chunk + requests.final + requests.single
    /\ requests.single = 1 => requests.chunk = 0 /\ requests.final = 0 /\ Len(sent) = 2
    /\ Len(sent) <= max_chunks + 2

\* C27: an invocation issues 2 requests on the single-shot path and at most
\* 14 on the two-stage path (1 title, at most 12 chunk, at most 1
\* consolidation), each in at most 3 attempts, and returns when every
\* attempt terminates
C27_BoundedRequests == []C27_Bounds /\ <>(pc = "done")

\* returned after 14 requests, 12 of them chunk requests, every chunk
\* summarised
C27_Witness ==
    /\ pc = "done"
    /\ requests = [title |-> 1, chunk |-> 12, final |-> 1, single |-> 0]
    /\ Len(sent) = 14
    /\ Len(per_chunk_summaries) = 12

(***************************************************************************)
(* Properties of chunk_transcript                                          *)
(***************************************************************************)
\* a chunk made of exactly one sentence that alone exceeds the budget
IsLoneOversizedSentence(chunk, budget) ==
    /\ Len(chunk.parts) = 1
    /\ ~chunk.parts[1].ov
    /\ \A k \in 1..Len(chunk.text) : chunk.text[k] # NL
    /\ Len(SplitSentences(chunk.text)) = 1
    /\ estimate_tokens(chunk.text) > budget

\* C8: every returned chunk is estimated at no more than max_chunk_tokens,
\* except a chunk that is one sentence which alone exceeds the budget
C8_ChunkBudget ==
    ct_pc = "done" =>
        \A k \in 1..Len(returned) :
            \/ estimate_tokens(returned[k].text) <= max_chunk_tokens
            \/ IsLoneOversizedSentence(returned[k], max_chunk_tokens)

\* the non-blank paragraphs of a text, each cut into its non-empty sentences
Units(text) ==
    LET paragraphs == SelectSeq(SplitNL(text), LAMBDA p : Strip(p) # <<>>)
        sentences == [k \in 1..Len(paragraphs) |->
                        SelectSeq(SplitSentences(paragraphs[k]), LAMBDA s : s # <<>>)]
    IN  FlattenSeqs(sentences)

\* the chunks in order, without the pieces that are overlap excerpts
WithoutOverlap(cs) ==
    LET own == SelectSeq(PartsOf(cs, 1, Len(cs)), LAMBDA p : ~p.ov)
    IN  Join(PieceTexts(own), <<NL>>)

\* C9: the chunks in order, with the overlap excerpts removed, are the
\* transcript's paragraphs (and sentences of split paragraphs) in the
\* original order, nothing missing or duplicated
C9_Reconstruction ==
    ct_pc = "done" =>
        /\ \A k \in 1..Len(returned) :
              returned[k].text = Join(PieceTexts(returned[k].parts), <<NL>>)
        /\ Units(WithoutOverlap(returned)) = Units(transcript_text)

C9_Witness ==
    /\ ct_pc = "done"
    /\ Len(RawChunks(transcript_text, max_chunk_tokens, overlap_tokens)) > max_chunks
    /\ \E k \in 1..Len(returned) : \E j \in 1..Len(returned[k].parts) :
          returned[k].parts[j].ov
    /\ Len(Units(transcript_text)) > max_chunks

\* the groups the post-pass is said to build: adjacent runs of ceil(n/12)
CeilDiv(n, d) == (n + d - 1) \div d

GroupsOf(raw) ==
    LET n == Len(raw)
        size == CeilDiv(n, max_chunks)
    IN  [g \in 1..CeilDiv(n, size) |->
            Join(ChunkTexts(SubSeq(raw, (g - 1) * size + 1,
                                   IF g * size < n THEN g * size ELSE n)), <<NL>>)]

\* C10: never more than 12 chunks; more than 12 produced chunks are merged
\* in adjacent groups of ceil(n/12), in order
C10_ChunkCap ==
    ct_pc = "done" =>
        LET raw == RawChunks(transcript_text, max_chunk_tokens, overlap_tokens)
        IN  /\ Len(returned) <= max_chunks
            /\ estimate_tokens(transcript_text) > max_chunk_tokens /\ Len(raw) > max_chunks
                  => ChunkTexts(returned) = GroupsOf(raw)

C10_Witness ==
    /\ ct_pc = "done"
    /\ Len(RawChunks(transcript_text, max_chunk_tokens, overlap_tokens)) > 2 * max_chunks
    /\ Len(returned) < max_chunks

\* the pieces of the chunks, in order, that are not overlap excerpts
OwnPieces(cs) == SelectSeq(PartsOf(cs, 1, Len(cs)), LAMBDA p : ~p.ov)

\* the non-blank paragraphs of the transcript estimated above the budget
OversizedParagraphs(text, budget) ==
    SelectSeq(SplitNL(text), LAMBDA p : Strip(p) # <<>> /\ estimate_tokens(p) > budget)

\* C18: every paragraph estimated above max_chunk_tokens, first or after
\* accumulated paragraphs, is cut at its sentence boundaries: each of its
\* sentences is a piece of the chunks, whole, and no piece above the
\* budget holds more than one sentence
C18_OversizedParagraphSplit ==
    ct_pc = "done" =>
        LET own == OwnPieces(returned)
            big == OversizedParagraphs(transcript_text, max_chunk_tokens)
        IN  /\ \A k \in 1..Len(big) :
                  \A sentence \in
                        {SplitSentences(big[k])[m] : m \in 1..Len(SplitSentences(big[k]))} \ {<<>>} :
                      \E j \in 1..Len(own) : own[j].s = sentence
            /\ \A j \in 1..Len(own) :
                  estimate_tokens(own[j].s) > max_chunk_tokens
                      => Len(SplitSentences(own[j].s)) = 1

\* s is trailing content of t
IsSuffix(s, t) == Len(s) <= Len(t) /\ SubSeq(t, Len(t) - Len(s) + 1, Len(t)) = s

\* C19: a chunk opened after a chunk was closed for the budget, when
\* overlap_tokens > 0, starts with an excerpt that is a suffix of the chunk
\* just closed and is estimated at no more than overlap_tokens, followed by
\* the new paragraph
C19_OverlapExcerpt ==
    ct_pc = "done" /\ estimate_tokens(transcript_text) > max_chunk_tokens =>
        LET raw == RawChunks(transcript_text, max_chunk_tokens, overlap_tokens)
        IN  \A k \in 2..Len(raw) :
                raw[k].parts[1].ov =>
                    /\ overlap_tokens > 0
                    /\ Len(raw[k].parts) >= 2 /\ ~raw[k].parts[2].ov
                    /\ estimate_tokens(raw[k].parts[1].s) <= overlap_tokens
                    /\ IsSuffix(raw[k].parts[1].s, raw[k - 1].text)

RaisedTransient(outcome) ==
    "raise" \in DOMAIN outcome /\ outcome.raise \in {"ValueError", "JSONDecodeError"}

\* the backend attempt gave a response whose content is text
GaveText(outcome) == "content" \in DOMAIN outcome /\ outcome.content.t = "str"

LastBackendCall == backend_calls[Len(backend_calls)]

\* C11: one call invokes the backend at most 3 times; every attempt but the
\* last raised a transient error; the call returns the text of the first
\* attempt that gives one, raises after 3 transient failures, and an
\* exception of another type leaves the call at the attempt that raised it
\* (after one attempt when it is the first)
C11_RetryPolicy ==
    /\ Len(backend_calls) <= 3
    /\ \A k \in 1..(Len(backend_calls) - 1) : RaisedTransient(backend_calls[k])
    /\ call_pc = "running" =>
          /\ Len(backend_calls) < 3
          /\ \A k \in 1..Len(backend_calls) : RaisedTransient(backend_calls[k])
    /\ call_pc = "returned" =>
          /\ GaveText(LastBackendCall)
          /\ call_value = PyStr(Strip(LastBackendCall.content.s))
    /\ call_pc = "raised" =>
          /\ ~GaveText(LastBackendCall)
          /\ IsRaise(call_value)
          /\ RaisedTransient(LastBackendCall) => Len(backend_calls) = 3
          /\ (IsRaise(LastBackendCall) /\ ~RaisedTransient(LastBackendCall)) =>
                /\ call_value = LastBackendCall
                /\ ~RaisedTransient(backend_calls[1]) => Len(backend_calls) = 1

C11_Witness ==
    /\ call_pc = "returned"
    /\ Len(backend_calls) = 3
    /\ RaisedTransient(backend_calls[1]) /\ RaisedTransient(backend_calls[2])
    /\ call_value.s # <<>>

\* the text is JSON for an object, possibly with prose around it
IsJsonObjectText(text) ==
    /\ JsonSpan(text) # <<>>
    /\ ~IsRaise(json_loads(JsonSpan(text)))
    /\ json_loads(JsonSpan(text)).t = "dict"

\* C12: text that is not parseable as the requested JSON object counts as a
\* transient failure: the request is re-issued, so a call never returns
\* such a text to its caller
C12_MalformedTextRetried ==
    /\ \A k \in 1..Len(backend_calls) :
          (GaveText(backend_calls[k]) /\ ~IsJsonObjectText(backend_calls[k].content.s))
             => (k < Len(backend_calls) \/ call_pc = "raised")
    /\ call_pc = "returned" => IsJsonObjectText(call_value.s)

(***************************************************************************)
(* Properties of the helper functions                                      *)
(***************************************************************************)
ParseDone == helper = "parse_json_response" /\ helper_pc = "done"

\* C13: parse_json_response never raises, whatever the input, and its
\* result is always a mapping: the parsed object, or {} on a parse failure
C13_AlwaysMapping ==
    ParseDone =>
        /\ ~IsRaise(helper_ret)
        /\ helper_ret.t = "dict"
        /\ (helper_arg.t # "str" \/ ~IsJsonObjectText(helper_arg.s))
              => helper_ret = PyDict(EmptyDict)

\* C25: parse_json_response parses the span from the first '{' to the
\* last '}'; when that fails it parses the raw text, so raw text that is
\* valid JSON is parsed even when the span is not; {} when both fail
C25_SpanThenRaw ==
    (ParseDone /\ helper_arg.t = "str") =>
        helper_ret =
            IF JsonSpan(helper_arg.s) # <<>> /\ ~IsRaise(json_loads(JsonSpan(helper_arg.s)))
            THEN json_loads(JsonSpan(helper_arg.s))
            ELSE IF ~IsRaise(json_loads(helper_arg.s)) THEN json_loads(helper_arg.s)
            ELSE PyDict(EmptyDict)

\* the two parameter names
NewerName ==
    PyStr(<<"m", "a", "x", "_", "c", "o", "m", "p", "l", "e", "t", "i", "o", "n", "_",
            "t", "o", "k", "e", "n", "s">>)

OlderName == PyStr(<<"m", "a", "x", "_", "t", "o", "k", "e", "n", "s">>)

TokenParamDone == helper = "get_token_param_name" /\ helper_pc = "done"

\* text has word somewhere inside it
HasSubstring(text, word) ==
    \E lo \in 0..Len(text), hi \in 0..Len(text) :
        lo <= hi /\ SubSeq(text, lo + 1, hi) = word

\* C14: max_completion_tokens exactly for the identifiers that contain
\* "gpt-4o", "gpt-4.5" or "o3", max_tokens for every other identifier
C14_TokenParamName ==
    (TokenParamDone /\ helper_arg.t = "str") =>
        /\ helper_ret \in {NewerName, OlderName}
        /\ helper_ret = NewerName
              <=> \/ HasSubstring(helper_arg.s, <<"g", "p", "t", "-", "4", "o">>)
                  \/ HasSubstring(helper_arg.s, <<"g", "p", "t", "-", "4", ".", "5">>)
                  \/ HasSubstring(helper_arg.s, <<"o", "3">>)
        /\ helper_arg.s = <<"g", "p", "t", "-", "3", ".", "5", "-", "t", "u", "r", "b", "o">>
              => helper_ret = OlderName

C14_Witness ==
    /\ TokenParamDone
    /\ helper_arg = PyStr(<<"3", "o", "3">>)
    /\ helper_ret = NewerName

FormatDone == helper = "format_duration" /\ helper_pc = "done"

\* field is the two-digit decimal rendering of n
IsTwoDigits(field, n) ==
    /\ Len(field) = 2
    /\ IsDigit(field[1]) /\ IsDigit(field[2])
    /\ 10 * DigitValue(field[1]) + DigitValue(field[2]) = n

\* text is HH:MM:SS for sec seconds, minutes and seconds in 0..59
IsHMS(text, sec) ==
    /\ Len(text) = 8 /\ text[3] = ":" /\ text[6] = ":"
    /\ IsTwoDigits(SubSeq(text, 1, 2), sec \div 3600)
    /\ IsTwoDigits(SubSeq(text, 4, 5), (sec % 3600) \div 60)
    /\ IsTwoDigits(SubSeq(text, 7, 8), sec % 60)

\* text is MM:SS for sec seconds, minutes and seconds in 0..59
IsMS(text, sec) ==
    /\ Len(text) = 5 /\ text[3] = ":"
    /\ IsTwoDigits(SubSeq(text, 1, 2), sec \div 60)
    /\ IsTwoDigits(SubSeq(text, 4, 5), sec % 60)
    /\ sec \div 60 \in 0..59

\* C15: format_duration never raises; a numeric value of at least 3600
\* seconds gives zero-padded HH:MM:SS, a smaller one zero-padded MM:SS, every
\* field two digits, minutes and seconds in 0..59; anything else gives "00:00"
C15_DurationFormat ==
    FormatDone =>
        /\ helper_ret.t = "str"
        /\ helper_arg.t \in {"int", "float"} /\ IsFiniteNumber(helper_arg) =>
              IF FloorOf(helper_arg) >= 3600
              THEN IsHMS(helper_ret.s, FloorOf(helper_arg))
              ELSE IsMS(helper_ret.s, FloorOf(helper_arg))
        /\ helper_arg = PyInt(59) => helper_ret.s = <<"0", "0", ":", "5", "9">>
        /\ helper_arg = PyInt(60) => helper_ret.s = <<"0", "1", ":", "0", "0">>
        /\ helper_arg = PyInt(3599) => helper_ret.s = <<"5", "9", ":", "5", "9">>
        /\ helper_arg = PyInt(3600)
              => helper_ret.s = <<"0", "1", ":", "0", "0", ":", "0", "0">>
        /\ helper_arg = PyInt(3661)
              => helper_ret.s = <<"0", "1", ":", "0", "1", ":", "0", "1">>
        /\ ~IsFiniteNumber(helper_arg) => helper_ret.s = <<"0", "0", ":", "0", "0">>

(***************************************************************************)
(* Properties of process_file_background                                   *)
(***************************************************************************)
\* C17: once generate_meeting_minutes has returned its record, the caller
\* leaves the values of the six core fields as returned and only adds
\* other top-level fields
C17_CoreFieldsUntouched ==
    caller_pc \in {"overwritten", "pdf", "completed"} =>
        /\ SixKeys \subseteq DOMAIN minutes
        /\ \A field \in SixKeys : minutes[field] = result[field]

(***************************************************************************)
(* Properties of the job bookkeeping                                       *)
(***************************************************************************)
\* positions of the terminal statuses among the updates of job j
TerminalUpdates(j) == {k \in 1..Len(updates[j]) : updates[j][k] \in TERMINAL_STATUSES}

\* C28: a run of process_file_background passes exactly one terminal status
\* ("completed" or "error") to update_job_status, as its last update and
\* before the finally clause; "started", when passed, is the first update;
\* "completed" is passed only after the minutes and the PDF or text file
\* were made; after the run the uploaded file is gone
C28_OneTerminalStatus ==
    \A j \in Jobs :
        /\ Cardinality(TerminalUpdates(j)) <= 1
        /\ job_pc[j] \in {"finally", "returned"} <=> Cardinality(TerminalUpdates(j)) = 1
        /\ \A k \in TerminalUpdates(j) : k = Len(updates[j])
        /\ \A k \in 1..Len(updates[j]) : updates[j][k] = "started" => k = 1
        /\ (\E k \in 1..Len(updates[j]) : updates[j][k] = "completed")
              => job_minutes[j] /\ job_doc[j] \in {"pdf", "txt"}
        /\ job_pc[j] = "returned" => ~uploads[j]

\* both runs are over, one completed with the text file and one failed
C28_Witness ==
    /\ job_pc = [j \in Jobs |-> "returned"]
    /\ \E j \in Jobs : updates[j] = <<"started", "completed">> /\ job_doc[j] = "txt"
    /\ \E j \in Jobs : updates[j] = <<"started", "error">>

\* C29: once update_job_status(job_id, "completed", minutes) has returned,
\* get_job_status(job_id) gives status "completed" and the minutes
C29_CompletedRecordReadable ==
    [][\A j \in Jobs, d \in {0, 1} :
          Complete(j, d) => /\ get_job_status(records', j).status = "completed"
                            /\ "minutes" \in DOMAIN get_job_status(records', j)]_vars

\* C30: a step of one job's thread, a status update with its cleanup
\* included, leaves the status record and the output files of every other
\* job as they were
C30_OtherJobsUntouched ==
    [][\A j \in Jobs :
          job_pc'[j] /= job_pc[j] =>
              \A k \in Jobs \ {j} : /\ records'[k] = records[k]
                                     /\ pdf_files'[k] = pdf_files[k]
                                     /\ txt_files'[k] = txt_files[k]]_vars

====
